---- MODULE Spec2Model ----
(***************************************************************************)
(* pgfence: the transaction state machine (src/src/transaction-state.ts),  *)
(* the file-scope policy walk (src/src/rules/policy.ts) and the per-file   *)
(* filtering of rule findings (src/src/analyzer.ts, src/src/parser.ts).    *)
(***************************************************************************)
EXTENDS Integers, Sequences, FiniteSets, TLC

VARIABLES
  tx,       \* the TransactionState object
  op,       \* the last call made on tx: [kind, name, found]
  snapHist, \* history: for each savepoint on the stack, locksHeld when it was pushed
  walk,     \* the local variables of checkPolicies
  ref,      \* history: what the statements walked so far did, told without the code's maps
  an,       \* the state of analyze() over one file: its text, statements, findings
  batch,    \* the state of analyze() over a batch of files: created tables, results
  cli,      \* the analyze command of the CLI: its options, exit code, error stream
  calc      \* one call of a pure function: its arguments and its result

vars == <<tx, op, snapHist, walk, ref, an, batch, cli, calc>>

-----------------------------------------------------------------------------
(* Bounds of the model *)

MaxDepth == 2
MaxSavepoints == 2
MaxStatementsInTx == 2

-----------------------------------------------------------------------------
(* Maps (JavaScript Map): a function whose DOMAIN is the set of keys present *)

EmptyMap == [k \in {} |-> "x"]

MapSet(m, k, v) == [x \in (DOMAIN m) \cup {k} |-> IF x = k THEN v ELSE m[x]]

MapDelete(m, k) == [x \in (DOMAIN m) \ {k} |-> m[x]]

Max(a, b) == IF a >= b THEN a ELSE b

\* Array.prototype.lastIndexOf, 1-based; 0 stands for JavaScript's -1
lastIndexOf(seq, x) ==
  IF \E j \in 1..Len(seq) : seq[j] = x
  THEN CHOOSE j \in 1..Len(seq) : seq[j] = x /\ \A k \in (j + 1)..Len(seq) : seq[k] # x
  ELSE 0

\* String.prototype.toLowerCase on the identifiers the model uses
toLowerCase(name) ==
  CASE name = "T1" -> "t1"
    [] name = "T2" -> "t2"
    [] OTHER -> name

-----------------------------------------------------------------------------
(* src/src/transaction-state.ts *)

NoName == "undefined"   \* savepointName absent
NoTable == "null"       \* tableName null

LockModes == {"ACCESS SHARE", "ROW SHARE", "ROW EXCLUSIVE", "SHARE UPDATE EXCLUSIVE",
              "SHARE", "SHARE ROW EXCLUSIVE", "EXCLUSIVE", "ACCESS EXCLUSIVE"}

lockModeRank(mode) ==
  CASE mode = "ACCESS SHARE" -> 0
    [] mode = "ROW SHARE" -> 1
    [] mode = "ROW EXCLUSIVE" -> 2
    [] mode = "SHARE UPDATE EXCLUSIVE" -> 3
    [] mode = "SHARE" -> 4
    [] mode = "SHARE ROW EXCLUSIVE" -> 5
    [] mode = "EXCLUSIVE" -> 6
    [] mode = "ACCESS EXCLUSIVE" -> 7
    [] OTHER -> -1

createTransactionState ==
  [active |-> FALSE,
   depth |-> 0,
   savepoints |-> <<>>,
   locksHeld |-> EmptyMap,
   statementsInTx |-> 0,
   savepointSnapshots |-> EmptyMap,
   accessExclusiveTables |-> {}]

\* case TRANS_STMT_BEGIN / TRANS_STMT_START
txBegin(state) == [state EXCEPT !.depth = @ + 1, !.active = TRUE]

\* a mutant of txCommit: the reset forgets the ACCESS EXCLUSIVE table set
txCommitKeepsTables(state) ==
  LET d == Max(0, state.depth - 1) IN
  IF d = 0
  THEN [state EXCEPT !.depth = d, !.active = FALSE, !.savepoints = <<>>,
                     !.locksHeld = EmptyMap, !.statementsInTx = 0,
                     !.savepointSnapshots = EmptyMap]
  ELSE [state EXCEPT !.depth = d]

\* a mutant of txCommit: the depth is not floored at 0
txCommitNoFloor(state) ==
  LET d == state.depth - 1 IN
  IF d = 0
  THEN [state EXCEPT !.depth = d, !.active = FALSE, !.savepoints = <<>>,
                     !.locksHeld = EmptyMap, !.statementsInTx = 0,
                     !.savepointSnapshots = EmptyMap, !.accessExclusiveTables = {}]
  ELSE [state EXCEPT !.depth = d]

\* case TRANS_STMT_COMMIT / TRANS_STMT_ROLLBACK
txCommit(state) ==
  LET d == Max(0, state.depth - 1) IN
  IF d = 0
  THEN [state EXCEPT !.depth = d, !.active = FALSE, !.savepoints = <<>>,
                     !.locksHeld = EmptyMap, !.statementsInTx = 0,
                     !.savepointSnapshots = EmptyMap, !.accessExclusiveTables = {}]
  ELSE [state EXCEPT !.depth = d]

\* case TRANS_STMT_SAVEPOINT
txSavepoint(state, savepointName) ==
  IF savepointName # NoName
  THEN [state EXCEPT !.savepoints = Append(@, savepointName),
                     !.savepointSnapshots = MapSet(@, savepointName, state.locksHeld)]
  ELSE state

\* case TRANS_STMT_RELEASE
txRelease(state, savepointName) ==
  IF savepointName # NoName
  THEN LET idx == lastIndexOf(state.savepoints, savepointName) IN
       IF idx >= 1
       THEN [state EXCEPT !.savepoints = SubSeq(@, 1, idx - 1),
                          !.savepointSnapshots = MapDelete(@, savepointName)]
       ELSE state
  ELSE state

\* a mutant of txRollbackTo: the ACCESS EXCLUSIVE table set is not recomputed
txRollbackToStaleTables(state, savepointName) ==
  IF savepointName # NoName
  THEN LET idx == lastIndexOf(state.savepoints, savepointName) IN
       IF idx >= 1
       THEN LET popped == [state EXCEPT !.savepoints = SubSeq(@, 1, idx)] IN
            IF savepointName \in DOMAIN state.savepointSnapshots
            THEN [popped EXCEPT !.locksHeld = state.savepointSnapshots[savepointName]]
            ELSE popped
       ELSE state
  ELSE state

\* case TRANS_STMT_ROLLBACK_TO
txRollbackTo(state, savepointName) ==
  IF savepointName # NoName
  THEN LET idx == lastIndexOf(state.savepoints, savepointName) IN
       IF idx >= 1
       THEN LET popped == [state EXCEPT !.savepoints = SubSeq(@, 1, idx)] IN
            IF savepointName \in DOMAIN state.savepointSnapshots
            THEN LET snapshot == state.savepointSnapshots[savepointName] IN
                 [popped EXCEPT !.locksHeld = snapshot,
                                !.accessExclusiveTables =
                                  {t \in DOMAIN snapshot : snapshot[t] = "ACCESS EXCLUSIVE"}]
            ELSE popped
       ELSE state
  ELSE state

TxKinds == {"TRANS_STMT_BEGIN", "TRANS_STMT_START", "TRANS_STMT_COMMIT",
            "TRANS_STMT_ROLLBACK", "TRANS_STMT_SAVEPOINT", "TRANS_STMT_RELEASE",
            "TRANS_STMT_ROLLBACK_TO"}

processTransactionStmt(state, kind, savepointName) ==
  CASE kind \in {"TRANS_STMT_BEGIN", "TRANS_STMT_START"} -> txBegin(state)
    [] kind \in {"TRANS_STMT_COMMIT", "TRANS_STMT_ROLLBACK"} -> txCommit(state)
    [] kind = "TRANS_STMT_SAVEPOINT" -> txSavepoint(state, savepointName)
    [] kind = "TRANS_STMT_RELEASE" -> txRelease(state, savepointName)
    [] kind = "TRANS_STMT_ROLLBACK_TO" -> txRollbackTo(state, savepointName)
    [] OTHER -> state

\* a mutant of recordLock: a weaker mode overwrites the mode held
recordLockOverwrites(state, tableName, lockMode) ==
  LET counted == [state EXCEPT !.statementsInTx = @ + 1] IN
  IF tableName = NoTable
  THEN [state |-> counted, wideLockWindow |-> FALSE]
  ELSE LET table == toLowerCase(tableName)
           held == [counted EXCEPT !.locksHeld = MapSet(@, table, lockMode)]
       IN IF lockMode = "ACCESS EXCLUSIVE"
          THEN [state |-> [held EXCEPT !.accessExclusiveTables = @ \cup {table}],
                wideLockWindow |-> held.accessExclusiveTables # {}
                                   /\ table \notin held.accessExclusiveTables]
          ELSE [state |-> held, wideLockWindow |-> FALSE]

\* recordLock: the state it leaves and the wideLockWindow flag it returns
recordLock(state, tableName, lockMode) ==
  LET counted == [state EXCEPT !.statementsInTx = @ + 1] IN
  IF tableName = NoTable
  THEN [state |-> counted, wideLockWindow |-> FALSE]
  ELSE LET table == toLowerCase(tableName)
           held == IF table \notin DOMAIN counted.locksHeld
                      \/ lockModeRank(lockMode) > lockModeRank(counted.locksHeld[table])
                   THEN [counted EXCEPT !.locksHeld = MapSet(@, table, lockMode)]
                   ELSE counted
       IN IF lockMode = "ACCESS EXCLUSIVE"
          THEN [state |-> [held EXCEPT !.accessExclusiveTables = @ \cup {table}],
                wideLockWindow |-> held.accessExclusiveTables # {}
                                   /\ table \notin held.accessExclusiveTables]
          ELSE [state |-> held, wideLockWindow |-> FALSE]

-----------------------------------------------------------------------------
(* The history of the savepoint stack: snapHist[j] is the lock map the code held *)
(* when the savepoint now at savepoints[j] was established.                      *)

histAfterTx(state, hist, kind, savepointName) ==
  LET idx == lastIndexOf(state.savepoints, savepointName) IN
  CASE kind \in {"TRANS_STMT_COMMIT", "TRANS_STMT_ROLLBACK"} ->
         IF Max(0, state.depth - 1) = 0 THEN <<>> ELSE hist
    [] kind = "TRANS_STMT_SAVEPOINT" /\ savepointName # NoName -> Append(hist, state.locksHeld)
    [] kind = "TRANS_STMT_RELEASE" /\ savepointName # NoName /\ idx >= 1 -> SubSeq(hist, 1, idx - 1)
    [] kind = "TRANS_STMT_ROLLBACK_TO" /\ savepointName # NoName /\ idx >= 1 -> SubSeq(hist, 1, idx)
    [] OTHER -> hist

-----------------------------------------------------------------------------
(* SpecTx: any sequence of calls on one TransactionState *)

SavepointNames == {"a", "b"}
TxTables == {"t1", "T1", "t2"}
TxModes == {"ACCESS EXCLUSIVE", "SHARE"}

NoOp == [kind |-> "none", name |-> NoName, found |-> FALSE, dirty |-> FALSE,
         table |-> NoTable, mode |-> "none"]

\* every field of the state differs from its value in a fresh state
dirtyState(state) ==
  /\ state.active /\ state.depth > 0 /\ state.savepoints # <<>>
  /\ state.locksHeld # EmptyMap /\ state.statementsInTx > 0
  /\ state.savepointSnapshots # EmptyMap /\ state.accessExclusiveTables # {}

walkIdle == [pc |-> "idle"]
refIdle == [pc |-> "idle"]
anIdle == [pc |-> "idle"]
batchIdle == [pc |-> "idle"]
cliIdle == [pc |-> "idle"]
calcIdle == [pc |-> "idle"]

InitTx ==
  /\ tx = createTransactionState
  /\ op = NoOp
  /\ snapHist = <<>>
  /\ walk = walkIdle
  /\ ref = refIdle
  /\ an = anIdle
  /\ batch = batchIdle
  /\ cli = cliIdle
  /\ calc = calcIdle

CallTx(kind, savepointName) ==
  /\ kind \in {"TRANS_STMT_BEGIN", "TRANS_STMT_START"} => tx.depth < MaxDepth
  /\ kind = "TRANS_STMT_SAVEPOINT" => Len(tx.savepoints) < MaxSavepoints
  /\ tx' = processTransactionStmt(tx, kind, savepointName)
  /\ op' = [kind |-> kind, name |-> savepointName,
            found |-> lastIndexOf(tx.savepoints, savepointName) >= 1,
            dirty |-> dirtyState(tx), table |-> NoTable, mode |-> "none"]
  /\ snapHist' = histAfterTx(tx, snapHist, kind, savepointName)
  /\ UNCHANGED <<walk, ref, an, batch, cli, calc>>

CallPlain == \E kind \in {"TRANS_STMT_BEGIN", "TRANS_STMT_START", "TRANS_STMT_COMMIT",
                          "TRANS_STMT_ROLLBACK"} : CallTx(kind, NoName)

CallSavepoint == \E kind \in {"TRANS_STMT_SAVEPOINT", "TRANS_STMT_RELEASE",
                              "TRANS_STMT_ROLLBACK_TO"} :
                   \E name \in SavepointNames \cup {NoName} : CallTx(kind, name)

CallRecordLock ==
  \E tableName \in TxTables \cup {NoTable}, lockMode \in TxModes :
    /\ tx.statementsInTx < MaxStatementsInTx
    /\ tx' = recordLock(tx, tableName, lockMode).state
    /\ op' = [kind |-> "recordLock", name |-> NoName, found |-> FALSE, dirty |-> dirtyState(tx),
              table |-> tableName, mode |-> lockMode]
    /\ UNCHANGED <<snapHist, walk, ref, an, batch, cli, calc>>

NextTx == CallPlain \/ CallSavepoint \/ CallRecordLock

SpecTx == InitTx /\ [][NextTx]_vars

-----------------------------------------------------------------------------
(* src/src/rules/policy.ts: the statements checkPolicies walks *)

MaxStmts == 5

\* A ParsedStatement, reduced to the AST fields checkPolicies reads.  An ALTER
\* TABLE carries one AlterTableCmd; a DROP or TRUNCATE names one relation.
Stmt(nodeType) ==
  [nodeType |-> nodeType, kind |-> "", savepoint_name |-> NoName, name |-> NoName,
   relname |-> NoTable, subtype |-> "", conname |-> NoName, skip_validation |-> FALSE,
   concurrent |-> FALSE, removeType |-> "", ival |-> -1, sval |-> <<>>,
   hasWhere |-> FALSE]

TransactionStmt(kind, savepointName) ==
  [Stmt("TransactionStmt") EXCEPT !.kind = kind, !.savepoint_name = savepointName]

VariableSetStmt(name, kind, ival) ==
  [Stmt("VariableSetStmt") EXCEPT !.name = name, !.kind = kind, !.ival = ival]

\* SET name = 'text': the string is kept as its number and its unit, <<2, "s">>
\* for '2s' and <<0, "">> for '0'
VariableSetText(name, sval) ==
  [Stmt("VariableSetStmt") EXCEPT !.name = name, !.kind = "VAR_SET_VALUE", !.sval = sval]

AlterTableStmt(relname, subtype) ==
  [Stmt("AlterTableStmt") EXCEPT !.relname = relname, !.subtype = subtype]

AddConstraintStmt(relname, conname, skip) ==
  [Stmt("AlterTableStmt") EXCEPT !.relname = relname, !.subtype = "AT_AddConstraint",
                                 !.conname = conname, !.skip_validation = skip]

ValidateConstraintStmt(relname, name) ==
  [Stmt("AlterTableStmt") EXCEPT !.relname = relname, !.subtype = "AT_ValidateConstraint",
                                 !.name = name]

IndexStmt(relname, concurrent) ==
  [Stmt("IndexStmt") EXCEPT !.relname = relname, !.concurrent = concurrent]

ReindexStmt(concurrently) ==
  [Stmt("ReindexStmt") EXCEPT !.concurrent = concurrently]

NoStmt == Stmt("none")

\* isAccessExclusiveStatement, case AlterTableStmt, for the statement's command
alterIsAccessExclusive(stmt) ==
  LET sub == stmt.subtype IN
  CASE sub = "AT_ValidateConstraint" -> FALSE
    [] sub = "AT_AddColumn" -> FALSE
    [] sub = "AT_AddConstraint" /\ stmt.skip_validation -> FALSE
    [] sub \in {"AT_EnableTrig", "AT_DisableTrig", "AT_EnableTrigAll",
                "AT_DisableTrigAll", "AT_EnableTrigUser", "AT_DisableTrigUser"} -> FALSE
    [] sub = "AT_DetachPartition" /\ stmt.concurrent -> FALSE
    [] sub \in {"AT_DropColumn", "AT_AlterColumnType", "AT_SetNotNull", "AT_AddConstraint",
                "AT_DropConstraint", "AT_AttachPartition", "AT_DetachPartition"} -> TRUE
    [] OTHER -> FALSE

isAccessExclusiveStatement(stmt) ==
  CASE stmt.nodeType = "AlterTableStmt" -> alterIsAccessExclusive(stmt)
    [] stmt.nodeType = "DropStmt" ->
         stmt.removeType \in {"OBJECT_TABLE", "OBJECT_INDEX", "OBJECT_TRIGGER"}
    [] stmt.nodeType = "TruncateStmt" -> TRUE
    [] stmt.nodeType = "RenameStmt" -> TRUE
    [] stmt.nodeType = "CreateTrigStmt" -> TRUE
    [] stmt.nodeType = "ReindexStmt" -> ~stmt.concurrent
    [] stmt.nodeType = "RefreshMatViewStmt" -> ~stmt.concurrent
    [] OTHER -> FALSE

getStatementTable(stmt) ==
  CASE stmt.nodeType \in {"AlterTableStmt", "IndexStmt", "CreateTrigStmt", "RenameStmt",
                          "RefreshMatViewStmt", "TruncateStmt"} ->
         IF stmt.relname = NoTable THEN NoTable ELSE toLowerCase(stmt.relname)
    [] stmt.nodeType = "DropStmt" ->
         IF stmt.removeType = "OBJECT_TABLE" /\ stmt.relname # NoTable
         THEN toLowerCase(stmt.relname) ELSE NoTable
    [] OTHER -> NoTable

NoLockMode == "null"

getStatementLockMode(stmt) ==
  IF isAccessExclusiveStatement(stmt) THEN "ACCESS EXCLUSIVE"
  ELSE CASE stmt.nodeType = "IndexStmt" ->
              IF stmt.concurrent THEN "SHARE UPDATE EXCLUSIVE" ELSE "SHARE"
         [] stmt.nodeType = "UpdateStmt" -> "ROW EXCLUSIVE"
         [] OTHER -> NoLockMode

\* parseTimeoutString on a number followed by a unit; -1 stands for null
parseTimeoutString(value) ==
  LET num == value[1]
      unit == value[2]
  IN CASE unit = "" -> num
       [] unit \in {"ms", "millisecond", "milliseconds"} -> num
       [] unit \in {"s", "sec", "second", "seconds"} -> num * 1000
       [] unit \in {"min", "minute", "minutes"} -> num * 60 * 1000
       [] unit \in {"h", "hour", "hours"} -> num * 3600 * 1000
       [] OTHER -> -1

\* parsePostgresTimeoutMs: the milliseconds of the first argument, an integer
\* constant (ival) or a string constant (sval); -1 stands for null
parsePostgresTimeoutMs(node) ==
  IF node.kind # "" /\ node.kind # "VAR_SET_VALUE" THEN -1
  ELSE IF node.ival # -1 THEN node.ival
  ELSE IF node.sval # <<>> THEN parseTimeoutString(node.sval)
  ELSE -1

DefaultMaxLockTimeoutMs == 5000
DefaultMaxStatementTimeoutMs == 600000

\* the key under which a NOT VALID constraint is remembered: `${tbl}.${name}`
\* (table and constraint names are dot-free identifiers here, so the parts of the
\* key stay apart)
constraintKey(tbl, name) == <<tbl, ".", IF name = NoName THEN "" ELSE name>>

-----------------------------------------------------------------------------
(* checkPolicies: the body of the loop over the statements, part by part.  w is *)
(* the record of the function's locals, t the TransactionState.                 *)

emit(w, ruleId) ==
  [w EXCEPT !.violations = @ \cup {ruleId}, !.emitted = @ \cup {ruleId}]

\* lines 101-145
trackVariableSet(w, stmt) ==
  IF stmt.nodeType # "VariableSetStmt" THEN w
  ELSE LET counts == stmt.kind # "VAR_RESET" /\ stmt.kind # "VAR_SET_DEFAULT"
           parsed == parsePostgresTimeoutMs(stmt)
       IN CASE stmt.name = "lock_timeout" ->
                 LET w1 == IF w.lockTimeoutIndex = -1 /\ counts
                           THEN [w EXCEPT !.lockTimeoutIndex = w.i] ELSE w
                 IN IF parsed # -1 /\ parsed > DefaultMaxLockTimeoutMs
                    THEN emit(w1, "lock-timeout-too-long") ELSE w1
            [] stmt.name = "statement_timeout" ->
                 LET w1 == IF w.statementTimeoutIndex = -1 /\ counts
                           THEN [w EXCEPT !.statementTimeoutIndex = w.i] ELSE w
                 IN IF parsed # -1 /\ parsed > DefaultMaxStatementTimeoutMs
                    THEN emit(w1, "statement-timeout-too-long") ELSE w1
            [] stmt.name = "application_name" -> [w EXCEPT !.hasApplicationName = TRUE]
            [] stmt.name = "idle_in_transaction_session_timeout" ->
                 [w EXCEPT !.hasIdleTimeout = TRUE]
            [] OTHER -> w

\* a mutant of resetOnTransactionEnd: the NOT VALID set outlives the transaction
resetKeepsNotValid(w, wasActive, t) ==
  IF wasActive /\ ~t.active
  THEN [w EXCEPT !.hasAccessExclusive = FALSE]
  ELSE w

\* lines 156-161: the per-transaction flags are dropped when the transaction ends
resetOnTransactionEnd(w, wasActive, t) ==
  IF wasActive /\ ~t.active
  THEN [w EXCEPT !.hasAccessExclusive = FALSE, !.notValidConstraintsInTx = {}]
  ELSE w

\* lines 147-162
trackTransaction(w, t, stmt) ==
  IF stmt.nodeType # "TransactionStmt" THEN [w |-> w, t |-> t]
  ELSE LET t1 == processTransactionStmt(t, stmt.kind, stmt.savepoint_name)
       IN [w |-> resetOnTransactionEnd(w, t.active, t1), t |-> t1]

\* a mutant of trackAccessExclusive: every ACCESS EXCLUSIVE statement overwrites
\* the first-dangerous index
trackAccessExclusiveLastIndex(w, stmt) ==
  IF ~isAccessExclusiveStatement(stmt) THEN w
  ELSE LET w1 == [w EXCEPT !.firstDangerousIndex = w.i]
       IN IF ~w.autoCommit
          THEN IF w1.hasAccessExclusive
               THEN emit(w1, "statement-after-access-exclusive")
               ELSE [w1 EXCEPT !.hasAccessExclusive = TRUE]
          ELSE w1

\* lines 164-189
trackAccessExclusive(w, stmt) ==
  IF ~isAccessExclusiveStatement(stmt) THEN w
  ELSE LET w1 == IF w.firstDangerousIndex = -1
                 THEN [w EXCEPT !.firstDangerousIndex = w.i] ELSE w
       IN IF ~w.autoCommit
          THEN IF w1.hasAccessExclusive
               THEN emit(w1, "statement-after-access-exclusive")
               ELSE [w1 EXCEPT !.hasAccessExclusive = TRUE]
          ELSE w1

\* lines 191-206
trackLocks(w, t, stmt) ==
  IF t.active /\ ~w.autoCommit
  THEN LET tableName == getStatementTable(stmt)
           lockMode == getStatementLockMode(stmt)
       IN IF tableName # NoTable /\ lockMode # NoLockMode
          THEN LET result == recordLock(t, tableName, lockMode)
               IN [w |-> IF result.wideLockWindow THEN emit(w, "wide-lock-window") ELSE w,
                   t |-> result.state]
          ELSE [w |-> w, t |-> t]
  ELSE [w |-> w, t |-> t]

\* lines 208-244
trackNotValid(w, t, stmt) ==
  IF stmt.nodeType = "AlterTableStmt" /\ t.active
  THEN LET tbl == IF stmt.relname = NoTable THEN "" ELSE stmt.relname
           w1 == IF stmt.subtype = "AT_AddConstraint" /\ stmt.skip_validation
                 THEN [w EXCEPT !.notValidConstraintsInTx =
                                  @ \cup {constraintKey(tbl, IF stmt.conname # NoName
                                                             THEN stmt.conname ELSE stmt.name)}]
                 ELSE w
       IN IF /\ stmt.subtype = "AT_ValidateConstraint" /\ stmt.name # NoName
             /\ constraintKey(tbl, stmt.name) \in w1.notValidConstraintsInTx
          THEN emit(w1, "not-valid-validate-same-tx")
          ELSE w1
  ELSE w

\* a mutant of checkConcurrentIndex: the transaction state is not consulted
checkConcurrentIndexAnywhere(w, t, stmt) ==
  IF stmt.nodeType = "IndexStmt" /\ stmt.concurrent
  THEN emit(w, "concurrent-in-transaction")
  ELSE w

\* lines 246-257
checkConcurrentIndex(w, t, stmt) ==
  IF stmt.nodeType = "IndexStmt" /\ stmt.concurrent /\ t.active
  THEN emit(w, "concurrent-in-transaction")
  ELSE w

\* lines 259-271
checkUpdate(w, stmt) ==
  IF stmt.nodeType = "UpdateStmt" /\ ~stmt.hasWhere
  THEN emit(w, "update-in-migration")
  ELSE w

\* one iteration of the loop (lines 98-272) on statement stmt
loopBody(w, t, stmt) ==
  LET w0 == [w EXCEPT !.emitted = {}, !.stmt = stmt]
      w1 == trackVariableSet(w0, stmt)
      r2 == trackTransaction(w1, t, stmt)
      w3 == trackAccessExclusive(r2.w, stmt)
      r4 == trackLocks(w3, r2.t, stmt)
      w5 == trackNotValid(r4.w, r4.t, stmt)
      w6 == checkConcurrentIndex(w5, r4.t, stmt)
      w7 == checkUpdate(w6, stmt)
  IN [w |-> [w7 EXCEPT !.i = @ + 1], t |-> r4.t]

\* lines 274-321: the checks after the walk
afterWalk(w, requireLockTimeout, requireStatementTimeout) ==
  LET w0 == [w EXCEPT !.emitted = {}, !.stmt = NoStmt, !.pc = "done"]
      w1 == IF /\ w0.lockTimeoutIndex >= 0 /\ w0.firstDangerousIndex >= 0
               /\ w0.firstDangerousIndex < w0.lockTimeoutIndex
            THEN emit(w0, "lock-timeout-after-dangerous-statement") ELSE w0
      w2 == IF requireLockTimeout /\ w1.lockTimeoutIndex = -1
            THEN emit(w1, "missing-lock-timeout") ELSE w1
      w3 == IF requireStatementTimeout /\ w2.statementTimeoutIndex = -1
            THEN emit(w2, "missing-statement-timeout") ELSE w2
      w4 == IF ~w3.hasApplicationName THEN emit(w3, "missing-application-name") ELSE w3
  IN IF ~w4.hasIdleTimeout THEN emit(w4, "missing-idle-timeout") ELSE w4

\* lines 76-96: the locals at the start of checkPolicies
walkStart(autoCommit) ==
  [pc |-> "loop", i |-> 0, autoCommit |-> autoCommit,
   lockTimeoutIndex |-> -1, statementTimeoutIndex |-> -1,
   hasApplicationName |-> FALSE, hasIdleTimeout |-> FALSE,
   firstDangerousIndex |-> -1, hasAccessExclusive |-> FALSE,
   notValidConstraintsInTx |-> {}, violations |-> {}, emitted |-> {}, stmt |-> NoStmt]

-----------------------------------------------------------------------------
(* The history of the walk, told from the statements alone: which locks the     *)
(* open transaction holds (a savepoint remembers the locks held when it was     *)
(* established, whatever its name), whether an ACCESS EXCLUSIVE statement has   *)
(* run since the last top-level COMMIT or ROLLBACK, which NOT VALID constraints *)
(* the open transaction added, and where the first ACCESS EXCLUSIVE statement   *)
(* and the first SET lock_timeout stand (1-based, 0 for none).                  *)

refStart ==
  [pc |-> "loop", locks |-> EmptyMap, snaps |-> <<>>, aeSinceEnd |-> FALSE,
   notValid |-> {}, firstAE |-> 0, firstSet |-> 0, firstSetValue |-> 0,
   endedTx |-> FALSE]

refAccessExclusive(r) == {x \in DOMAIN r.locks : r.locks[x] = "ACCESS EXCLUSIVE"}

isTopLevelEnd(t, stmt) ==
  /\ stmt.nodeType = "TransactionStmt"
  /\ stmt.kind \in {"TRANS_STMT_COMMIT", "TRANS_STMT_ROLLBACK"}
  /\ Max(0, t.depth - 1) = 0

isSetLockTimeout(stmt) ==
  /\ stmt.nodeType = "VariableSetStmt" /\ stmt.name = "lock_timeout"
  /\ stmt.kind # "VAR_RESET"

\* r after statement stmt, walked at 0-based index i with t the transaction state
\* before it and t1 the state after it
refAfter(r, t, t1, i, autoCommit, stmt) ==
  LET idx == lastIndexOf(t.savepoints, stmt.savepoint_name)
      isTx == stmt.nodeType = "TransactionStmt"
      named == isTx /\ stmt.savepoint_name # NoName
      table == getStatementTable(stmt)
      mode == getStatementLockMode(stmt)
      locks1 ==
        CASE isTopLevelEnd(t, stmt) -> EmptyMap
          [] named /\ stmt.kind = "TRANS_STMT_ROLLBACK_TO" /\ idx >= 1 -> r.snaps[idx]
          [] ~isTx /\ t1.active /\ ~autoCommit /\ table # NoTable /\ mode # NoLockMode ->
               IF table \notin DOMAIN r.locks \/ lockModeRank(mode) > lockModeRank(r.locks[table])
               THEN MapSet(r.locks, table, mode) ELSE r.locks
          [] OTHER -> r.locks
      snaps1 ==
        CASE isTopLevelEnd(t, stmt) -> <<>>
          [] named /\ stmt.kind = "TRANS_STMT_SAVEPOINT" -> Append(r.snaps, r.locks)
          [] named /\ stmt.kind = "TRANS_STMT_RELEASE" /\ idx >= 1 -> SubSeq(r.snaps, 1, idx - 1)
          [] named /\ stmt.kind = "TRANS_STMT_ROLLBACK_TO" /\ idx >= 1 -> SubSeq(r.snaps, 1, idx)
          [] OTHER -> r.snaps
  IN [pc |-> "loop",
      locks |-> locks1,
      snaps |-> snaps1,
      aeSinceEnd |-> IF isTopLevelEnd(t, stmt) THEN FALSE
                     ELSE r.aeSinceEnd \/ isAccessExclusiveStatement(stmt),
      notValid |-> IF isTopLevelEnd(t, stmt) THEN {}
                   ELSE IF /\ stmt.nodeType = "AlterTableStmt" /\ t1.active
                           /\ stmt.subtype = "AT_AddConstraint" /\ stmt.skip_validation
                           /\ stmt.conname # NoName
                        THEN r.notValid \cup {<<stmt.relname, stmt.conname>>}
                        ELSE r.notValid,
      firstAE |-> IF r.firstAE = 0 /\ isAccessExclusiveStatement(stmt) THEN i + 1 ELSE r.firstAE,
      firstSet |-> IF r.firstSet = 0 /\ isSetLockTimeout(stmt) THEN i + 1 ELSE r.firstSet,
      firstSetValue |-> IF r.firstSetValue = 0 /\ isSetLockTimeout(stmt)
                           /\ stmt.kind # "VAR_SET_DEFAULT"
                        THEN i + 1 ELSE r.firstSetValue,
      endedTx |-> IF isTx THEN isTopLevelEnd(t, stmt) /\ t.active ELSE r.endedTx]

-----------------------------------------------------------------------------
(* SpecPolicy: checkPolicies walks one file, statement by statement *)

PolicyTables == {"t1", "t2"}

PolicyStmts ==
  {TransactionStmt(k, NoName) : k \in {"TRANS_STMT_BEGIN", "TRANS_STMT_COMMIT",
                                       "TRANS_STMT_ROLLBACK"}}
  \cup {TransactionStmt(k, "a") : k \in {"TRANS_STMT_SAVEPOINT", "TRANS_STMT_RELEASE",
                                         "TRANS_STMT_ROLLBACK_TO"}}
  \cup {AlterTableStmt(x, "AT_AlterColumnType") : x \in PolicyTables}
  \cup {AddConstraintStmt("t1", "c", TRUE)}
  \cup {ValidateConstraintStmt(x, "c") : x \in PolicyTables}
  \cup {IndexStmt("t1", b) : b \in BOOLEAN}
  \cup {VariableSetStmt("lock_timeout", k, 2000) : k \in {"VAR_SET_VALUE", "VAR_SET_DEFAULT",
                                                          "VAR_RESET"}}
  \cup {ReindexStmt(FALSE)}

InitPolicy ==
  /\ tx = createTransactionState
  /\ op = NoOp
  /\ snapHist = <<>>
  /\ \E autoCommit \in BOOLEAN : walk = walkStart(autoCommit)
  /\ ref = refStart
  /\ an = anIdle
  /\ batch = batchIdle
  /\ cli = cliIdle
  /\ calc = calcIdle

WalkStmt(stmt) ==
  /\ walk.pc = "loop"
  /\ stmt.kind = "TRANS_STMT_BEGIN" => tx.depth < MaxDepth
  /\ stmt.kind = "TRANS_STMT_SAVEPOINT" => Len(tx.savepoints) < MaxSavepoints
  /\ LET r == loopBody(walk, tx, stmt) IN
       /\ walk' = r.w
       /\ tx' = r.t
       /\ ref' = refAfter(ref, tx, r.t, walk.i, walk.autoCommit, stmt)
  /\ UNCHANGED <<op, snapHist, an, batch, cli, calc>>

Walk == walk.i < MaxStmts /\ \E stmt \in PolicyStmts : WalkStmt(stmt)

Finish ==
  /\ walk.pc = "loop"
  /\ \E requireLockTimeout \in BOOLEAN, requireStatementTimeout \in BOOLEAN :
       walk' = afterWalk(walk, requireLockTimeout, requireStatementTimeout)
  /\ ref' = [ref EXCEPT !.pc = "done"]
  /\ UNCHANGED <<tx, op, snapHist, an, batch, cli, calc>>

NextPolicy == Walk \/ Finish

SpecPolicy == InitPolicy /\ [][NextPolicy]_vars

-----------------------------------------------------------------------------
(* SpecLocks: the same walk over longer files of transaction statements and *)
(* lock-taking statements                                                   *)

MaxLockStmts == 7

LockStmts ==
  {TransactionStmt(k, NoName) : k \in {"TRANS_STMT_BEGIN", "TRANS_STMT_COMMIT"}}
  \cup {TransactionStmt(k, "a") : k \in {"TRANS_STMT_SAVEPOINT", "TRANS_STMT_RELEASE",
                                         "TRANS_STMT_ROLLBACK_TO"}}
  \cup {AlterTableStmt(x, "AT_AlterColumnType") : x \in PolicyTables}
  \cup {IndexStmt("t2", FALSE)}

WalkLocks == walk.i < MaxLockStmts /\ \E stmt \in LockStmts : WalkStmt(stmt)

NextLocks == WalkLocks \/ Finish

SpecLocks == InitPolicy /\ [][NextLocks]_vars

-----------------------------------------------------------------------------
(* The parser: SQL text, statement offsets, raw SQL and inline directives *)

\* SQL text is a sequence of UTF-16 code units, as a JavaScript string is.  A
\* unit of the model stands for one code unit of the file:
\*   "--"              the opener of a line comment
\*   "pgfence-ignore"  the directive word
\*   ": r1"            a colon and the rule list r1
\*   "pgfence: ignore r2"  the legacy directive word with the rule list r2
\*   "emdash"          a character outside ASCII (U+2014: one code unit, three
\*                     bytes of UTF-8)
\*   "\n"              a line break;  "stmt" a statement's text;  ";" its end
Min(a, b) == IF a <= b THEN a ELSE b

byteLength(unit) == IF unit = "emdash" THEN 3 ELSE 1

\* the offset in bytes of the code unit at 0-based index k
RECURSIVE byteOffset(_, _)
byteOffset(sql, k) == IF k = 0 THEN 0 ELSE byteOffset(sql, k - 1) + byteLength(sql[k])

\* The statements the PostgreSQL grammar finds, with stmt_location and stmt_len
\* in bytes: a statement starts right after the ";" before it (at 0 when there
\* is none) and its length runs to its own ";"; the text of a comment is skipped,
\* an empty statement yields no entry, a last statement without ";" has length 0.
\* k is the 1-based index of the next unit, loc the 0-based index of the start.
RECURSIVE scan(_, _, _, _, _, _)
scan(sql, k, inComment, loc, hasBody, out) ==
  IF k > Len(sql)
  THEN IF hasBody
       THEN Append(out, [stmt_location |-> byteOffset(sql, loc), stmt_len |-> 0])
       ELSE out
  ELSE CASE inComment -> scan(sql, k + 1, sql[k] # "\n", loc, hasBody, out)
         [] sql[k] = "--" -> scan(sql, k + 1, TRUE, loc, hasBody, out)
         [] sql[k] = ";" ->
              scan(sql, k + 1, FALSE, k, FALSE,
                   IF hasBody
                   THEN Append(out, [stmt_location |-> byteOffset(sql, loc),
                                     stmt_len |-> byteOffset(sql, k - 1) - byteOffset(sql, loc)])
                   ELSE out)
         [] sql[k] = "\n" -> scan(sql, k + 1, FALSE, loc, hasBody, out)
         [] OTHER -> scan(sql, k + 1, FALSE, loc, TRUE, out)

parseFn(sql) == scan(sql, 1, FALSE, 0, FALSE, <<>>)

\* String.prototype.slice with 0-based code unit indices
slice(s, from, to) ==
  LET lo == Min(Max(from, 0), Len(s))
      hi == Min(Max(to, 0), Len(s))
  IN IF lo >= hi THEN <<>> ELSE SubSeq(s, lo + 1, hi)

RECURSIVE trimStart(_)
trimStart(s) == IF s # <<>> /\ Head(s) = "\n" THEN trimStart(Tail(s)) ELSE s

RECURSIVE trimEnd(_)
trimEnd(s) ==
  IF s # <<>> /\ s[Len(s)] = "\n" THEN trimEnd(SubSeq(s, 1, Len(s) - 1)) ELSE s

trim(s) == trimEnd(trimStart(s))

\* the index of the first unit after p that is not white space; Len(text) + 1
\* when there is none
RECURSIVE skipSpace(_, _)
skipSpace(text, p) ==
  IF p + 1 > Len(text) THEN Len(text) + 1
  ELSE IF text[p + 1] = "\n" THEN skipSpace(text, p + 1) ELSE p + 1

unitAt(text, p) == IF p >= 1 /\ p <= Len(text) THEN text[p] ELSE ""

\* lines 89, 93-109: the rules pushed for the matches of
\* /--\s*pgfence-ignore(?:\s*:\s*([^\n]+))?/gi in text
newPattern(text) ==
  LET word(p) == skipSpace(text, p)
      hits == {p \in 1..Len(text) :
                 text[p] = "--" /\ unitAt(text, word(p)) = "pgfence-ignore"}
      list(p) == unitAt(text, skipSpace(text, word(p)))
  IN {IF list(p) = ": r1" THEN "r1" ELSE "*" : p \in hits}

\* lines 91, 93-109: the rules pushed for the matches of
\* /--\s*pgfence:\s*ignore\s+([^\n]+)/gi in text
legacyPattern(text) ==
  {"r2" : p \in {q \in 1..Len(text) :
                   text[q] = "--" /\ unitAt(text, skipSpace(text, q)) = "pgfence: ignore r2"}}

\* lines 85-124
extractIgnoredRules(rawSql, fullSql, stmtStart, prevEnd) ==
  LET rules == newPattern(rawSql) \cup legacyPattern(rawSql)
      region == slice(fullSql, prevEnd, stmtStart)
  IN IF rules = {} THEN newPattern(region) \cup legacyPattern(region) ELSE rules

\* lines 48-61: the raw SQL of one entry
rawSqlOf(sql, entry) ==
  LET start == entry.stmt_location
      end == IF entry.stmt_len > 0 THEN start + entry.stmt_len ELSE Len(sql)
      rawSql == trim(slice(sql, start, end))
  IN IF rawSql # <<>> /\ rawSql[Len(rawSql)] = ";"
     THEN trimEnd(SubSeq(rawSql, 1, Len(rawSql) - 1))
     ELSE rawSql

\* lines 40-69: the loop of parseSQL over the entries from index i on
RECURSIVE parseLoop(_, _, _, _, _)
parseLoop(sql, stmts, i, prevEnd, results) ==
  IF i > Len(stmts) THEN results
  ELSE LET entry == stmts[i]
           start == entry.stmt_location
           end == IF entry.stmt_len > 0 THEN start + entry.stmt_len ELSE Len(sql)
           rawSql == rawSqlOf(sql, entry)
       IN parseLoop(sql, stmts, i + 1, end,
                    Append(results,
                           [sql |-> rawSql,
                            ignoredRules |-> extractIgnoredRules(rawSql, sql, start, prevEnd)]))

\* lines 30-72
parseSQL(sql) == parseLoop(sql, parseFn(sql), 1, 0, <<>>)

-----------------------------------------------------------------------------
(* SpecAnalyze: analyze reads one file, parses it and filters the findings  *)
(* of every statement                                                       *)

MaxItems == 4

DashComment == <<"--", "emdash", "\n">>
DashesComment == <<"--", "emdash", "emdash", "\n">>
BareDirective == <<"--", "pgfence-ignore", "\n">>
SpecificDirective == <<"--", "pgfence-ignore", ": r1", "\n">>
LegacyDirective == <<"--", "pgfence: ignore r2", "\n">>
Statement == <<"stmt", ";", "\n">>
EmptyStatement == <<";", "\n">>

Items == {DashComment, DashesComment, BareDirective, SpecificDirective, LegacyDirective, Statement,
          EmptyStatement}

BuiltInRules == {"r1", "r2"}
PluginRules == {"plugin:p1"}

\* rules whose findings carry appliesToNewTables
NewTableRules == {"r2"}

\* config.rules: absent, or an enable list, or a disable list
RulesConfigs ==
  {[enable |-> {}, disable |-> {}], [enable |-> {"r1", "plugin:p1"}, disable |-> {}],
   [enable |-> {}, disable |-> {"r2"}]}

\* lines 224-239, on the rule IDs of the items
filterByRulesConfig(ruleIds, rules) ==
  LET enabled == IF rules.enable # {} THEN ruleIds \cap rules.enable ELSE ruleIds
  IN IF rules.disable # {} THEN enabled \ rules.disable ELSE enabled

\* lines 163-171: the findings kept for statement stmt out of rawChecks;
\* tableCreated says that the findings name a table created in this batch
keptChecks(stmt, rawChecks, tableCreated) ==
  {ruleId \in rawChecks :
     /\ ~("*" \in stmt.ignoredRules \/ ruleId \in stmt.ignoredRules)
     /\ ~(tableCreated /\ ruleId \notin NewTableRules)}

anStart == [pc |-> "read", sql |-> <<>>, items |-> 0, stmts |-> <<>>, i |-> 0,
            rules |-> [enable |-> {}, disable |-> {}], checks |-> {},
            unsuppressed |-> {}]

InitAnalyze ==
  /\ tx = createTransactionState
  /\ op = NoOp
  /\ snapHist = <<>>
  /\ walk = walkIdle
  /\ ref = refIdle
  /\ an = anStart
  /\ batch = batchIdle
  /\ cli = cliIdle
  /\ calc = calcIdle

\* the file's text grows by one comment, directive or statement
WriteItem ==
  /\ an.pc = "read"
  /\ an.items < MaxItems
  /\ \E item \in Items : an' = [an EXCEPT !.sql = @ \o item, !.items = @ + 1]
  /\ UNCHANGED <<tx, op, snapHist, walk, ref, batch, cli, calc>>

\* lines 123-126
ParseFile ==
  /\ an.pc = "read"
  /\ \E rules \in RulesConfigs :
       an' = [an EXCEPT !.pc = "loop", !.rules = rules,
                        !.stmts = IF trim(an.sql) # <<>> THEN parseSQL(an.sql) ELSE <<>>]
  /\ UNCHANGED <<tx, op, snapHist, walk, ref, batch, cli, calc>>

\* lines 146-172: one statement; the built-in and plugin rules that match it are
\* inputs.  unsuppressed is history: the findings the same statement yields when
\* it carries no directive.
AnalyzeStmt ==
  /\ an.pc = "loop"
  /\ an.i < Len(an.stmts)
  /\ \E builtIn \in SUBSET BuiltInRules, plugin \in SUBSET PluginRules,
        tableCreated \in BOOLEAN :
       LET stmt == an.stmts[an.i + 1]
           builtInChecks == builtIn \cup plugin
           rawChecks == filterByRulesConfig(builtInChecks, an.rules)
           kept == keptChecks(stmt, rawChecks, tableCreated)
           bare == keptChecks([stmt EXCEPT !.ignoredRules = {}], rawChecks, tableCreated)
       IN an' = [an EXCEPT !.i = @ + 1,
                           !.checks = @ \cup {[stmt |-> an.i + 1, ruleId |-> r] : r \in kept},
                           !.unsuppressed =
                             @ \cup {[stmt |-> an.i + 1, ruleId |-> r] : r \in bare}]
  /\ UNCHANGED <<tx, op, snapHist, walk, ref, batch, cli, calc>>

\* lines 201-209
PushResult ==
  /\ an.pc = "loop"
  /\ an.i = Len(an.stmts)
  /\ an' = [an EXCEPT !.pc = "done"]
  /\ UNCHANGED <<tx, op, snapHist, walk, ref, batch, cli, calc>>

NextAnalyze == WriteItem \/ ParseFile \/ AnalyzeStmt \/ PushResult

SpecAnalyze == InitAnalyze /\ [][NextAnalyze]_vars

-----------------------------------------------------------------------------
(* Risk levels and their adjustment by table size (src/src/analyzer.ts)     *)

RISK_ORDER == <<"SAFE", "LOW", "MEDIUM", "HIGH", "CRITICAL">>

\* Array.prototype.indexOf on RISK_ORDER, 0-based; -1 when absent
riskIndex(risk) ==
  IF \E j \in 1..Len(RISK_ORDER) : RISK_ORDER[j] = risk
  THEN (CHOOSE j \in 1..Len(RISK_ORDER) : RISK_ORDER[j] = risk) - 1
  ELSE -1

maxRiskLevel(a, b) == IF riskIndex(a) >= riskIndex(b) THEN a ELSE b

CriticalRows == 10000000
TwoLevelRows == 1000000
OneLevelRows == 10000

\* a mutant of adjustRisk: the two bumps are exchanged
adjustRiskSwappedBumps(baseRisk, rowCount) ==
  IF rowCount >= CriticalRows THEN "CRITICAL"
  ELSE LET bump == IF rowCount >= TwoLevelRows THEN 1
                   ELSE IF rowCount >= OneLevelRows THEN 2 ELSE 0
       IN IF bump = 0 THEN baseRisk
          ELSE RISK_ORDER[Min(riskIndex(baseRisk) + bump, Len(RISK_ORDER) - 1) + 1]

\* a mutant of adjustRisk: the thresholds are exclusive
adjustRiskAboveThreshold(baseRisk, rowCount) ==
  IF rowCount > CriticalRows THEN "CRITICAL"
  ELSE LET bump == IF rowCount > TwoLevelRows THEN 2
                   ELSE IF rowCount > OneLevelRows THEN 1 ELSE 0
       IN IF bump = 0 THEN baseRisk
          ELSE RISK_ORDER[Min(riskIndex(baseRisk) + bump, Len(RISK_ORDER) - 1) + 1]

adjustRisk(baseRisk, rowCount) ==
  IF rowCount >= CriticalRows THEN "CRITICAL"
  ELSE LET bump == IF rowCount >= TwoLevelRows THEN 2
                   ELSE IF rowCount >= OneLevelRows THEN 1 ELSE 0
       IN IF bump = 0 THEN baseRisk
          ELSE RISK_ORDER[Min(riskIndex(baseRisk) + bump, Len(RISK_ORDER) - 1) + 1]

-----------------------------------------------------------------------------
(* analyze over a batch of files: created tables, plugins, risk, results    *)

MaxFileStmts == 2

\* the files of the batch, in the order the caller supplied
FilePaths == <<"a.sql", "b.sql">>

\* CREATE TABLE x (id int)
CreateStmt(relname) == [nodeType |-> "CreateStmt", relname |-> relname]

\* ALTER TABLE x ADD COLUMN c int NOT NULL
AddColumnStmt(relname) == [nodeType |-> "AlterTableStmt", relname |-> relname]

BatchStmts == {CreateStmt("T1"), AddColumnStmt("t1"), AddColumnStmt("t2")}

RECURSIVE SeqsUpTo(_, _)
SeqsUpTo(S, n) ==
  IF n = 0 THEN {<<>>}
  ELSE LET shorter == SeqsUpTo(S, n - 1)
       IN shorter \cup {Append(q, x) : q \in {r \in shorter : Len(r) = n - 1}, x \in S}

NoAdjustedRisk == "undefined"

\* a CheckResult, reduced to the fields analyze and the CLI read
CheckResult(ruleId, tableName, risk, appliesToNewTables) ==
  [ruleId |-> ruleId, tableName |-> tableName, risk |-> risk,
   appliesToNewTables |-> appliesToNewTables, adjustedRisk |-> NoAdjustedRisk]

\* applyRules on the two statement shapes: checkBestPractices reports the int
\* column of both, checkAddColumn the NOT NULL column without DEFAULT,
\* checkPreferRobustStmts the CREATE TABLE without IF NOT EXISTS
applyRules(stmt) ==
  {CheckResult("prefer-bigint-over-int", stmt.relname, "LOW", TRUE)}
  \cup IF stmt.nodeType = "AlterTableStmt"
       THEN {CheckResult("add-column-not-null-no-default", stmt.relname, "HIGH", FALSE)}
       ELSE {CheckResult("prefer-robust-create-table", stmt.relname, "LOW", FALSE)}

\* What a plugin check does: it "returns" findings, returns "nothing" or "throws".
\* The loaded plugins: the rules in load order, each with its behaviour on ALTER
\* TABLE statements (on other statements a rule returns nothing), and the
\* policies in load order, each with its behaviour on a file
NoPlugins == [rules |-> <<>>, policies |-> <<>>]

PluginSets ==
  {NoPlugins,
   [rules |-> <<[ruleId |-> "plugin:p1", onAlter |-> "throws"],
                [ruleId |-> "plugin:p2", onAlter |-> "returns"]>>,
    policies |-> <<[ruleId |-> "plugin:q1", onFile |-> "throws"],
                   [ruleId |-> "plugin:q2", onFile |-> "returns"]>>],
   [rules |-> <<[ruleId |-> "plugin:p1", onAlter |-> "returns"],
                [ruleId |-> "plugin:p2", onAlter |-> "throws"]>>,
    policies |-> <<[ruleId |-> "plugin:q1", onFile |-> "nothing"],
                   [ruleId |-> "plugin:q2", onFile |-> "throws"]>>]}

pluginCheck(rule, stmt) ==
  IF stmt.nodeType = "AlterTableStmt" THEN rule.onAlter ELSE "nothing"

\* the ruleId the check function of a plugin rule or policy writes into the
\* results it returns: its own ruleId unless the plugin is described with another
resultIdOf(rule) == IF "resultId" \in DOMAIN rule THEN rule.resultId ELSE rule.ruleId

\* a mutant of runPluginRules: the first rule that throws ends the loop
RECURSIVE runPluginRulesAbort(_, _, _)
runPluginRulesAbort(pluginRules, stmt, j) ==
  IF j > Len(pluginRules) THEN {}
  ELSE LET rule == pluginRules[j]
       IN IF pluginCheck(rule, stmt) = "throws" THEN {}
          ELSE (IF pluginCheck(rule, stmt) = "returns"
                THEN {CheckResult(resultIdOf(rule), stmt.relname, "MEDIUM", FALSE)}
                ELSE {})
               \cup runPluginRulesAbort(pluginRules, stmt, j + 1)

\* plugins.ts lines 86-100: the rules are run in order from index j on; a rule that
\* throws contributes nothing and the loop goes on
RECURSIVE runPluginRules(_, _, _)
runPluginRules(pluginRules, stmt, j) ==
  IF j > Len(pluginRules) THEN {}
  ELSE LET rule == pluginRules[j]
           found == IF pluginCheck(rule, stmt) = "returns"
                    THEN {CheckResult(resultIdOf(rule), stmt.relname, "MEDIUM", FALSE)}
                    ELSE {}
       IN found \cup runPluginRules(pluginRules, stmt, j + 1)

\* a PolicyViolation, reduced to the fields the CLI reads
PolicyViolation(ruleId, severity) == [ruleId |-> ruleId, severity |-> severity]

\* plugins.ts lines 105-119
RECURSIVE runPluginPolicies(_, _)
runPluginPolicies(pluginPolicies, j) ==
  IF j > Len(pluginPolicies) THEN {}
  ELSE LET policy == pluginPolicies[j]
           found == IF policy.onFile = "returns"
                    THEN {PolicyViolation(resultIdOf(policy), "error")}
                    ELSE {}
       IN found \cup runPluginPolicies(pluginPolicies, j + 1)

\* what checkPolicies reports for a file: an input here, the walk itself is
\* SpecPolicy
BuiltInPolicies ==
  {{PolicyViolation("missing-application-name", "warning")},
   {PolicyViolation("missing-application-name", "warning"),
    PolicyViolation("missing-lock-timeout", "error")}}

\* config.tableStats: absent, or the statistics of table T1
NoTableStats == <<>>

TableStatsInputs ==
  {NoTableStats}
  \cup {<<[schemaName |-> "public", tableName |-> "T1", rowCount |-> n]>> :
          n \in {OneLevelRows, CriticalRows}}

\* analyzer.ts lines 105-114: the keys of tableStatsMap, "table" and
\* "schema.table", as tuples of their parts
statsKeys(s) == {<<toLowerCase(s.tableName)>>, <<s.schemaName, toLowerCase(s.tableName)>>}

\* tableStatsMap.get(key): the last entry set for the key, <<>> when there is none
statsGet(rawStats, key) ==
  LET hits == {j \in 1..Len(rawStats) : key \in statsKeys(rawStats[j])}
  IN IF hits = {} THEN <<>>
     ELSE <<rawStats[CHOOSE j \in hits : \A k \in hits : k <= j]>>

\* a mutant of the prepass: the name is added as written
createdInAsWritten(stmts) ==
  {stmts[j].relname : j \in {k \in 1..Len(stmts) : stmts[k].nodeType = "CreateStmt"}}

\* the created-tables prepass of analyze, lines 132-142: every CreateStmt of the
\* file, wherever it stands, adds its lower-cased name
createdIn(stmts) ==
  {toLowerCase(stmts[j].relname) : j \in {k \in 1..Len(stmts) : stmts[k].nodeType = "CreateStmt"}}

\* the visibility filter of line 170: TRUE when the check is dropped
hiddenByVisibility(check, createdTables) ==
  /\ check.tableName # NoTable
  /\ toLowerCase(check.tableName) \in createdTables
  /\ ~check.appliesToNewTables

\* lines 183-192: the adjusted risk of a check that passed the filters
withAdjustedRisk(check, rawStats) ==
  IF rawStats = NoTableStats \/ check.tableName = NoTable THEN check
  ELSE LET stats == statsGet(rawStats, <<toLowerCase(check.tableName)>>)
       IN IF stats = <<>> THEN check
          ELSE [check EXCEPT !.adjustedRisk = adjustRisk(check.risk, stats[1].rowCount)]

\* line 197: check.adjustedRisk ?? check.risk
effectiveRisk(check) ==
  IF check.adjustedRisk # NoAdjustedRisk THEN check.adjustedRisk ELSE check.risk

\* lines 195-199: the maximum of the effective risks, SAFE for no checks
maxRiskOf(checks) ==
  IF checks = {} THEN "SAFE"
  ELSE LET top == CHOOSE c \in checks :
                    \A d \in checks : riskIndex(effectiveRisk(d)) <= riskIndex(effectiveRisk(c))
       IN maxRiskLevel("SAFE", effectiveRisk(top))

\* analyze is entered, lines 88-120: plugins loaded, statistics mapped, no results
batchStart(plugins, tableStats) ==
  [pc |-> "file", plugins |-> plugins, tableStats |-> tableStats,
   crossFileCreatedTables |-> {}, createdTables |-> {}, files |-> <<>>,
   stmts |-> <<>>, i |-> 0, checks |-> {}, raised |-> {}, results |-> <<>>]

\* lines 122-142: the next file is extracted and parsed, or reading it throws;
\* the prepass collects the tables the file creates
ReadFile ==
  /\ batch.pc = "file"
  /\ \/ \E stmts \in SeqsUpTo(BatchStmts, MaxFileStmts) :
          batch' = [batch EXCEPT
                      !.pc = "stmts",
                      !.files = Append(@, stmts),
                      !.stmts = stmts,
                      !.i = 0,
                      !.checks = {},
                      !.createdTables = batch.crossFileCreatedTables \cup createdIn(stmts),
                      !.crossFileCreatedTables = @ \cup createdIn(stmts)]
     \/ batch' = [batch EXCEPT !.pc = "threw"]
  /\ UNCHANGED <<tx, op, snapHist, walk, ref, an, cli, calc>>

\* lines 146-172: one statement of the file; the batch carries no rules
\* configuration and its statements no inline directive, so filterByRulesConfig
\* and the directive filter (SpecAnalyze) keep every check
CheckStmt ==
  /\ batch.pc = "stmts"
  /\ batch.i < Len(batch.stmts)
  /\ LET k == batch.i + 1
         stmt == batch.stmts[k]
         rawChecks == applyRules(stmt) \cup runPluginRules(batch.plugins.rules, stmt, 1)
         located == {[file |-> Len(batch.files), stmt |-> k, check |-> c] : c \in rawChecks}
         kept == {f \in located : ~hiddenByVisibility(f.check, batch.createdTables)}
     IN batch' = [batch EXCEPT !.i = k,
                               !.checks = @ \cup kept,
                               !.raised = @ \cup located]
  /\ UNCHANGED <<tx, op, snapHist, walk, ref, an, cli, calc>>

\* lines 174-209: policies, risk adjustment, maximum risk, the file's result
PushFileResult ==
  /\ batch.pc = "stmts"
  /\ batch.i = Len(batch.stmts)
  /\ \E builtInPolicies \in BuiltInPolicies :
       LET policyViolations ==
             builtInPolicies \cup runPluginPolicies(batch.plugins.policies, 1)
           checks == {[f EXCEPT !.check = withAdjustedRisk(@, batch.tableStats)] :
                        f \in batch.checks}
           result == [filePath |-> FilePaths[Len(batch.files)],
                      checks |-> checks,
                      policyViolations |-> policyViolations,
                      maxRisk |-> maxRiskOf({f.check : f \in checks}),
                      statementCount |-> Len(batch.stmts)]
       IN batch' = [batch EXCEPT
                      !.results = Append(@, result),
                      !.checks = checks,
                      !.pc = IF Len(batch.files) = Len(FilePaths) THEN "done" ELSE "file"]
  /\ UNCHANGED <<tx, op, snapHist, walk, ref, an, cli, calc>>

-----------------------------------------------------------------------------
(* src/src/index.ts: the analyze command                                    *)

\* String.prototype.toUpperCase on the --max-risk values the model uses
toUpperCase(value) ==
  CASE value = "medium" -> "MEDIUM"
    [] value = "high" -> "HIGH"
    [] OTHER -> value

InvalidRiskLevel == "throws"

\* index.ts lines 22-28
parseRiskLevel(value) ==
  LET upper == toUpperCase(value)
  IN IF riskIndex(upper) = -1 THEN InvalidRiskLevel ELSE upper

\* --max-risk as typed; "high" is the default of the option
MaxRiskValues == {"medium", "high", "TERROR"}

\* --stats-file: not given, a list of statistics, a file that cannot be read,
\* a file that is no JSON, a list whose first entry has no tableName/rowCount,
\* and a JSON object that holds no list
StatsFiles ==
  {[kind |-> "absent", tableStats |-> NoTableStats]}
  \cup {[kind |-> "list", tableStats |-> t] : t \in TableStatsInputs \ {NoTableStats}}
  \cup {[kind |-> k, tableStats |-> NoTableStats] :
          k \in {"unreadable", "unparseable", "wrong shape", "no list"}}

\* lines 71-87: TRUE when loading the statistics throws
statsFileThrows(statsFile) == statsFile.kind \in {"unreadable", "unparseable", "wrong shape"}

\* what Node does with the rejected promise of the action, which program.parse()
\* (line 192) leaves without a handler: it prints the error with its stack and
\* exits 1, or, before Node 15, prints a warning and lets the process end with 0
UnhandledRejectionOutcomes ==
  {[exitCode |-> 1, stderr |-> <<"<source position>", "Error: <message>", "    at <frame>">>],
   [exitCode |-> 0, stderr |-> <<"UnhandledPromiseRejectionWarning: Error: <message>",
                                 "    at <frame>">>]}

cliStart == [pc |-> "start"]

cliRun(pc, ci, maxAllowedRisk, malformed, exitCode, stderr) ==
  [pc |-> pc, ci |-> ci, maxAllowedRisk |-> maxAllowedRisk, malformed |-> malformed,
   exitCode |-> exitCode, stderr |-> stderr]

NoExit == -1

\* lines 67-114: the options are read outside the try block; a value that throws
\* rejects the promise of the action, otherwise analyze is entered. Statistics
\* that are no list make analyze throw on line 105, inside the try block.
ParseOptions ==
  /\ cli.pc = "start"
  /\ \E statsFile \in StatsFiles, maxRisk \in MaxRiskValues, ci \in BOOLEAN,
        plugins \in PluginSets :
       IF statsFileThrows(statsFile)
       THEN /\ cli' = cliRun("rejected", ci, "undefined", "--stats-file", NoExit, <<>>)
            /\ UNCHANGED batch
       ELSE IF parseRiskLevel(maxRisk) = InvalidRiskLevel
       THEN /\ cli' = cliRun("rejected", ci, "undefined", "--max-risk", NoExit, <<>>)
            /\ UNCHANGED batch
       ELSE /\ cli' = cliRun("analyzing", ci, parseRiskLevel(maxRisk), "none", NoExit, <<>>)
            /\ batch' = IF statsFile.kind = "no list"
                        THEN [batchStart(plugins, NoTableStats) EXCEPT !.pc = "threw"]
                        ELSE batchStart(plugins, statsFile.tableStats)
  /\ UNCHANGED <<tx, op, snapHist, walk, ref, an, calc>>

\* the rejection reaches Node
UnhandledRejection ==
  /\ cli.pc = "rejected"
  /\ \E outcome \in UnhandledRejectionOutcomes :
       cli' = [cli EXCEPT !.pc = "exited",
                          !.exitCode = outcome.exitCode,
                          !.stderr = outcome.stderr]
  /\ UNCHANGED <<tx, op, snapHist, walk, ref, an, batch, calc>>

\* a mutant of shouldFail: a risk equal to the allowed one fails too
shouldFailAtAllowed(results, maxAllowedRisk) ==
  \E r \in 1..Len(results) :
    \/ riskIndex(results[r].maxRisk) >= riskIndex(maxAllowedRisk)
    \/ \E v \in results[r].policyViolations : v.severity = "error"

\* lines 133-146: shouldFail over the results
shouldFail(results, maxAllowedRisk) ==
  \E r \in 1..Len(results) :
    \/ riskIndex(results[r].maxRisk) > riskIndex(maxAllowedRisk)
    \/ \E v \in results[r].policyViolations : v.severity = "error"

\* lines 114-152: analyze returned, the report is written, CI mode decides
ReportAndExit ==
  /\ cli.pc = "analyzing"
  /\ batch.pc = "done"
  /\ cli' = [cli EXCEPT
               !.pc = "exited",
               !.exitCode = IF cli.ci /\ shouldFail(batch.results, cli.maxAllowedRisk)
                            THEN 1 ELSE 0]
  /\ UNCHANGED <<tx, op, snapHist, walk, ref, an, batch, calc>>

\* lines 153-157: analyze threw
CatchError ==
  /\ cli.pc = "analyzing"
  /\ batch.pc = "threw"
  /\ cli' = [cli EXCEPT !.pc = "exited",
                        !.exitCode = 2,
                        !.stderr = <<"pgfence error: <message>">>]
  /\ UNCHANGED <<tx, op, snapHist, walk, ref, an, batch, calc>>

InitCli ==
  /\ tx = createTransactionState
  /\ op = NoOp
  /\ snapHist = <<>>
  /\ walk = walkIdle
  /\ ref = refIdle
  /\ an = anIdle
  /\ batch = batchIdle
  /\ cli = cliStart
  /\ calc = calcIdle

NextCli ==
  \/ ParseOptions
  \/ ReadFile
  \/ CheckStmt
  \/ PushFileResult
  \/ ReportAndExit
  \/ CatchError
  \/ UnhandledRejection

SpecCli == InitCli /\ [][NextCli]_vars

-----------------------------------------------------------------------------
(* Calls of adjustRisk *)

\* the five levels of RiskLevel
RiskLevels == {RISK_ORDER[j] : j \in 1..Len(RISK_ORDER)}

\* row counts at, next to and between the thresholds; -1 is what reltuples holds
\* for a table that was never analyzed
RowCounts ==
  {-1, 0}
  \cup UNION {{t - 1, t, t + 1} : t \in {OneLevelRows, TwoLevelRows, CriticalRows}}
  \cup {OneLevelRows * 50, TwoLevelRows * 5, CriticalRows * 10}

NoCall == [pc |-> "none"]

calcStart == [pc |-> "start", last |-> NoCall, before |-> NoCall]

\* adjustRisk is called: the call and the one before it are kept
CallAdjustRisk ==
  /\ calc.pc \in {"start", "called"}
  /\ \E baseRisk \in RiskLevels, rowCount \in RowCounts :
       calc' = [pc |-> "called",
                last |-> [pc |-> "returned", baseRisk |-> baseRisk, rowCount |-> rowCount,
                          result |-> adjustRisk(baseRisk, rowCount)],
                before |-> calc.last]
  /\ UNCHANGED <<tx, op, snapHist, walk, ref, an, batch, cli>>

InitRisk ==
  /\ tx = createTransactionState
  /\ op = NoOp
  /\ snapHist = <<>>
  /\ walk = walkIdle
  /\ ref = refIdle
  /\ an = anIdle
  /\ batch = batchIdle
  /\ cli = cliIdle
  /\ calc = calcStart

NextRisk == CallAdjustRisk

SpecRisk == InitRisk /\ [][NextRisk]_vars

-----------------------------------------------------------------------------
(* src/src/rules: the findings of the built-in rules, with their rewrites    *)

\* a finding, reduced to its rule, its base risk and its safeRewrite: whether
\* one is given and how many steps it lists
Finding(ruleId, risk, steps) ==
  [ruleId |-> ruleId, risk |-> risk, hasSafeRewrite |-> TRUE, steps |-> steps]

FindingNoRewrite(ruleId, risk) ==
  [ruleId |-> ruleId, risk |-> risk, hasSafeRewrite |-> FALSE, steps |-> 0]

\* config.minPostgresVersion: below and at the versions the rules compare with
MinPostgresVersions == {10, 11, 13, 14}

\* ALTER TABLE t ADD COLUMN c <type> [NOT NULL] [DEFAULT e] [GENERATED ... STORED]
AddColumnCmds ==
  [nodeType : {"AlterTableStmt"}, subtype : {"AT_AddColumn"},
   hasNotNull : BOOLEAN,
   defaultExpr : {"none", "A_Const", "TypeCast(A_Const)", "TypeCast(FuncCall)", "FuncCall"},
   typeName : {"int4", "json", "serial"},
   hasStoredGenerated : BOOLEAN]

\* rename-column.ts lines 336-347
isConstantDefault(expr) == expr \in {"A_Const", "TypeCast(A_Const)"}

\* rename-column.ts lines 109-318, for a statement of one command
checkAddColumn(stmt, minPostgresVersion) ==
  IF stmt.nodeType # "AlterTableStmt" THEN {}
  ELSE IF stmt.subtype # "AT_AddColumn" THEN {}
  ELSE IF stmt.hasNotNull /\ stmt.defaultExpr = "none"
  THEN {Finding("add-column-not-null-no-default", "HIGH", 10)}
  ELSE
    (IF stmt.defaultExpr = "none" THEN {}
     ELSE (IF isConstantDefault(stmt.defaultExpr) /\ minPostgresVersion >= 11
           THEN {Finding("add-column-constant-default", "LOW", 1)}
           ELSE IF ~isConstantDefault(stmt.defaultExpr)
           THEN {Finding("add-column-non-constant-default", "HIGH", 7)}
           ELSE {})
          \cup (IF isConstantDefault(stmt.defaultExpr) /\ minPostgresVersion < 11
                THEN {Finding("add-column-default-pre-pg11", "HIGH", 7)}
                ELSE {}))
    \cup (IF stmt.typeName = "json" THEN {FindingNoRewrite("add-column-json", "LOW")} ELSE {})
    \cup (IF stmt.typeName = "serial" THEN {Finding("add-column-serial", "MEDIUM", 1)} ELSE {})
    \cup (IF stmt.hasStoredGenerated
          THEN {Finding("add-column-stored-generated", "HIGH", 4)}
          ELSE {})

\* ALTER TABLE p ATTACH PARTITION ..., DETACH PARTITION ... [CONCURRENTLY]
PartitionCmds ==
  [nodeType : {"AlterTableStmt"}, subtype : {"AT_AttachPartition", "AT_DetachPartition"},
   concurrent : BOOLEAN]

\* a mutant of checkPartition: a rewrite for DETACH only where CONCURRENTLY exists
checkPartitionRewriteFromPg14(stmt, minPostgresVersion) ==
  IF stmt.nodeType # "AlterTableStmt" THEN {}
  ELSE IF stmt.subtype = "AT_AttachPartition"
  THEN {Finding("attach-partition", "HIGH", 7)}
  ELSE IF stmt.subtype = "AT_DetachPartition"
  THEN IF stmt.concurrent
       THEN {FindingNoRewrite("detach-partition-concurrent", "LOW")}
       ELSE {IF minPostgresVersion >= 14
             THEN Finding("detach-partition", "HIGH", 2)
             ELSE FindingNoRewrite("detach-partition", "HIGH")}
  ELSE {}

\* best-practices.ts lines 261-357
checkPartition(stmt, minPostgresVersion) ==
  IF stmt.nodeType # "AlterTableStmt" THEN {}
  ELSE IF stmt.subtype = "AT_AttachPartition"
  THEN {Finding("attach-partition", "HIGH", 7)}
  ELSE IF stmt.subtype = "AT_DetachPartition"
  THEN IF stmt.concurrent
       THEN {FindingNoRewrite("detach-partition-concurrent", "LOW")}
       ELSE {Finding("detach-partition", "HIGH", IF minPostgresVersion >= 14 THEN 2 ELSE 3)}
  ELSE {}

\* REFRESH MATERIALIZED VIEW [CONCURRENTLY] v [WITH NO DATA]
RefreshMatViewStmts ==
  [nodeType : {"RefreshMatViewStmt"}, concurrent : BOOLEAN, skipData : BOOLEAN]

\* part_025 lines 14-60
checkRefreshMatView(stmt) ==
  IF stmt.nodeType # "RefreshMatViewStmt" THEN {}
  ELSE IF stmt.concurrent THEN {FindingNoRewrite("refresh-matview-concurrent", "LOW")}
  ELSE IF stmt.skipData THEN {FindingNoRewrite("refresh-matview-blocking", "MEDIUM")}
  ELSE {Finding("refresh-matview-blocking", "HIGH", 5)}

\* ALTER TABLE t ALTER COLUMN c TYPE <target>, ALTER COLUMN c SET NOT NULL
AlterColumnCmds ==
  [nodeType : {"AlterTableStmt"}, subtype : {"AT_AlterColumnType"},
   target : {"none", "text", "varchar", "varchar(N)", "numeric(P)", "numeric", "int8"}]
  \cup [nodeType : {"AlterTableStmt"}, subtype : {"AT_SetNotNull"}]

\* part_026 lines 83-117: the risk of the classification, "null" when there is none
classifyTypeChange(target) ==
  CASE target \in {"text", "varchar"} -> "LOW"
    [] target \in {"varchar(N)", "numeric(P)"} -> "MEDIUM"
    [] OTHER -> "null"

\* part_026 lines 119-217
checkAlterColumn(stmt) ==
  IF stmt.nodeType # "AlterTableStmt" THEN {}
  ELSE IF stmt.subtype = "AT_AlterColumnType"
  THEN LET risk == classifyTypeChange(stmt.target)
       IN IF risk # "null" /\ risk # "HIGH"
          THEN {IF risk = "MEDIUM" THEN Finding("alter-column-type", risk, 3)
                ELSE FindingNoRewrite("alter-column-type", risk)}
          ELSE {Finding("alter-column-type", "HIGH", 9)}
  ELSE IF stmt.subtype = "AT_SetNotNull"
  THEN {Finding("alter-column-set-not-null", "MEDIUM", 4)}
  ELSE {}

\* ALTER TABLE t ADD CONSTRAINT ..., VALIDATE CONSTRAINT
AddConstraintCmds ==
  [nodeType : {"AlterTableStmt"}, subtype : {"AT_AddConstraint"},
   contype : {"CONSTR_FOREIGN", "CONSTR_CHECK", "CONSTR_UNIQUE", "CONSTR_PRIMARY",
              "CONSTR_EXCLUSION"},
   skip_validation : BOOLEAN, indexname : BOOLEAN]
  \cup [nodeType : {"AlterTableStmt"}, subtype : {"AT_ValidateConstraint"}]

\* add-constraint.ts lines 45-222
checkAddConstraint(stmt) ==
  IF stmt.nodeType # "AlterTableStmt" THEN {}
  ELSE IF stmt.subtype = "AT_ValidateConstraint"
  THEN {FindingNoRewrite("validate-constraint", "LOW")}
  ELSE IF stmt.subtype # "AT_AddConstraint" THEN {}
  ELSE CASE stmt.contype = "CONSTR_FOREIGN" ->
              IF stmt.skip_validation THEN {}
              ELSE {Finding("add-constraint-fk-no-not-valid", "HIGH", 3)}
         [] stmt.contype = "CONSTR_CHECK" ->
              IF stmt.skip_validation THEN {}
              ELSE {Finding("add-constraint-check-no-not-valid", "MEDIUM", 2)}
         [] stmt.contype = "CONSTR_UNIQUE" ->
              IF stmt.indexname
              THEN {FindingNoRewrite("add-constraint-unique-using-index", "LOW")}
              ELSE {Finding("add-constraint-unique", "HIGH", 2)}
         [] stmt.contype = "CONSTR_PRIMARY" ->
              IF stmt.indexname
              THEN {FindingNoRewrite("add-pk-using-index", "LOW")}
              ELSE {Finding("add-pk-without-using-index", "HIGH", 2)}
         [] stmt.contype = "CONSTR_EXCLUSION" ->
              {Finding("add-constraint-exclude", "HIGH", 5)}

\* DROP TABLE / DROP INDEX, TRUNCATE, DELETE [WHERE], VACUUM [FULL]
DestructiveStmts ==
  [nodeType : {"DropStmt"}, removeType : {"OBJECT_TABLE", "OBJECT_INDEX"}]
  \cup [nodeType : {"TruncateStmt"}]
  \cup [nodeType : {"DeleteStmt"}, whereClause : BOOLEAN]
  \cup [nodeType : {"VacuumStmt"}, full : BOOLEAN]

\* destructive.ts lines 16-138
checkDestructive(stmt) ==
  CASE stmt.nodeType = "DropStmt" ->
         IF stmt.removeType # "OBJECT_TABLE" THEN {}
         ELSE {Finding("drop-table", "CRITICAL", 4)}
    [] stmt.nodeType = "TruncateStmt" -> {Finding("truncate", "CRITICAL", 2)}
    [] stmt.nodeType = "DeleteStmt" ->
         IF stmt.whereClause THEN {} ELSE {Finding("delete-without-where", "HIGH", 2)}
    [] stmt.nodeType = "VacuumStmt" ->
         IF ~stmt.full THEN {} ELSE {Finding("vacuum-full", "HIGH", 2)}
    [] OTHER -> {}

\* REINDEX [CONCURRENTLY] TABLE | INDEX | SCHEMA | DATABASE | SYSTEM
ReindexStmts ==
  [nodeType : {"ReindexStmt"},
   kind : {"REINDEX_OBJECT_TABLE", "REINDEX_OBJECT_INDEX", "REINDEX_OBJECT_SCHEMA",
           "REINDEX_OBJECT_DATABASE", "REINDEX_OBJECT_SYSTEM"},
   concurrently : BOOLEAN]

\* reindex.ts lines 15-62
checkReindex(stmt) ==
  IF stmt.nodeType # "ReindexStmt" THEN {}
  ELSE IF stmt.concurrently THEN {}
  ELSE LET isWide == stmt.kind \in {"REINDEX_OBJECT_SCHEMA", "REINDEX_OBJECT_DATABASE",
                                     "REINDEX_OBJECT_SYSTEM"}
       IN {Finding("reindex-non-concurrent", IF isWide THEN "CRITICAL" ELSE "HIGH", 2)}

\* ALTER TABLE t RENAME [COLUMN a] TO b, ALTER INDEX i RENAME TO j
RenameStmts ==
  [nodeType : {"RenameStmt"}, renameType : {"OBJECT_COLUMN", "OBJECT_TABLE", "OBJECT_INDEX"}]

\* part_022 lines 16-86
checkRenameColumn(stmt) ==
  IF stmt.nodeType # "RenameStmt" THEN {}
  ELSE (IF stmt.renameType = "OBJECT_COLUMN" THEN {Finding("rename-column", "LOW", 6)} ELSE {})
       \cup (IF stmt.renameType = "OBJECT_TABLE"
             THEN {Finding("rename-table", "HIGH", 6)}
             ELSE {})

\* the statement shapes the rules above tell apart
RuleStmts ==
  AddColumnCmds \cup PartitionCmds \cup RefreshMatViewStmts \cup AlterColumnCmds
  \cup AddConstraintCmds \cup DestructiveStmts \cup ReindexStmts \cup RenameStmts

\* analyzer.ts lines 241-257, over the rules that report a risk above MEDIUM for
\* some statement; the other rules (create-index, best-practices,
\* prefer-robust-stmts, alter-enum, trigger) report LOW or MEDIUM only
highRiskRules(stmt, minPostgresVersion) ==
  checkAddColumn(stmt, minPostgresVersion)
  \cup checkAlterColumn(stmt)
  \cup checkAddConstraint(stmt)
  \cup checkDestructive(stmt)
  \cup checkRenameColumn(stmt)
  \cup checkReindex(stmt)
  \cup checkRefreshMatView(stmt)
  \cup checkPartition(stmt, minPostgresVersion)

rulesStart == [pc |-> "rules"]

\* the rules are applied to one statement under one configuration
ApplyRules ==
  /\ calc.pc \in {"rules", "checked"}
  /\ \E stmt \in RuleStmts, minPostgresVersion \in MinPostgresVersions :
       calc' = [pc |-> "checked", stmt |-> stmt, minPostgresVersion |-> minPostgresVersion,
                results |-> highRiskRules(stmt, minPostgresVersion)]
  /\ UNCHANGED <<tx, op, snapHist, walk, ref, an, batch, cli>>

InitRules ==
  /\ tx = createTransactionState
  /\ op = NoOp
  /\ snapHist = <<>>
  /\ walk = walkIdle
  /\ ref = refIdle
  /\ an = anIdle
  /\ batch = batchIdle
  /\ cli = cliIdle
  /\ calc = rulesStart

NextRules == ApplyRules

SpecRules == InitRules /\ [][NextRules]_vars

-----------------------------------------------------------------------------
(* Claims about the transaction state machine, under SpecTx *)

\* C1: inside a transaction, after ROLLBACK TO S (S on the savepoint stack, names
\* possibly reused or nested) the lock map equals the lock map held when the
\* savepoint rolled back to was established.
C1_RollbackToRestoresLockMap ==
  (op.kind = "TRANS_STMT_ROLLBACK_TO" /\ op.found /\ tx.active)
    => tx.locksHeld = snapHist[Len(snapHist)]

\* C2: after a COMMIT or ROLLBACK that brings the depth to 0, every field of the
\* state equals its value in a freshly created state.
C2_TopLevelEndResets ==
  (op.kind \in {"TRANS_STMT_COMMIT", "TRANS_STMT_ROLLBACK"} /\ tx.depth = 0)
    => tx = createTransactionState

\* C2 witness: a COMMIT has just ended a transaction in which every field had
\* left its initial value.
C2_Witness ==
  op.kind = "TRANS_STMT_COMMIT" /\ op.dirty /\ tx.depth = 0

\* C3: the depth is never negative and active holds exactly when depth > 0.
C3_ActiveIffDepthPositive ==
  tx.depth >= 0 /\ (tx.active <=> tx.depth > 0)

\* C3 witness: a COMMIT that closed the inner of two nested BEGINs and left the
\* outer transaction open.
C3_Witness ==
  op.kind = "TRANS_STMT_COMMIT" /\ tx.depth = 1 /\ tx.active

\* C4: the ACCESS EXCLUSIVE table set is exactly the set of tables whose lock-map
\* entry is ACCESS EXCLUSIVE.
C4_AccessExclusiveTablesMatchLockMap ==
  tx.accessExclusiveTables =
    {t \in DOMAIN tx.locksHeld : tx.locksHeld[t] = "ACCESS EXCLUSIVE"}

\* C4 witness: a ROLLBACK TO has restored a lock map that holds both an ACCESS
\* EXCLUSIVE entry and a weaker one, dropping a table locked after the savepoint.
C4_Witness ==
  /\ op.kind = "TRANS_STMT_ROLLBACK_TO" /\ op.found /\ op.dirty
  /\ tx.accessExclusiveTables = {"t1"}
  /\ "t2" \in DOMAIN tx.locksHeld /\ tx.locksHeld["t2"] = "SHARE"

-----------------------------------------------------------------------------
(* Claims about the policy walk: C5 under SpecLocks, the others under        *)
(* SpecPolicy                                                                *)

\* the statement just walked acquires ACCESS EXCLUSIVE on a table, inside an active
\* transaction, and that table is none of the tables the transaction already
\* holds under ACCESS EXCLUSIVE, of which there is at least one
acquiresNewAccessExclusiveTable ==
  LET table == getStatementTable(walk'.stmt) IN
  /\ tx'.active
  /\ isAccessExclusiveStatement(walk'.stmt)
  /\ table # NoTable
  /\ refAccessExclusive(ref) # {}
  /\ table \notin refAccessExclusive(ref)

\* C5: with autoCommit false, wide-lock-window is emitted for a statement exactly
\* when the statement is inside an active transaction and acquires ACCESS EXCLUSIVE
\* on a table different from every table already under ACCESS EXCLUSIVE in that
\* transaction, at least one such table existing.
C5_WideLockWindowExactly ==
  [][(walk'.i = walk.i + 1 /\ ~walk.autoCommit)
       => ("wide-lock-window" \in walk'.emitted <=> acquiresNewAccessExclusiveTable)]_vars

\* C6: statement-after-access-exclusive is emitted for a statement exactly when the
\* statement is an ACCESS EXCLUSIVE statement, autoCommit is false and an earlier
\* ACCESS EXCLUSIVE statement exists with no top-level COMMIT or ROLLBACK statement
\* between the two; with autoCommit true it is never emitted.
C6_CompoundingExactly ==
  [][walk'.i = walk.i + 1
       => ("statement-after-access-exclusive" \in walk'.emitted
             <=> /\ isAccessExclusiveStatement(walk'.stmt)
                 /\ ~walk.autoCommit
                 /\ ref.aeSinceEnd)]_vars

isValidateConstraint(stmt) ==
  stmt.nodeType = "AlterTableStmt" /\ stmt.subtype = "AT_ValidateConstraint"

\* C7: not-valid-validate-same-tx is emitted for a statement exactly when the
\* statement is ALTER TABLE t VALIDATE CONSTRAINT c inside an active transaction in
\* which an earlier ALTER TABLE t ADD CONSTRAINT c NOT VALID occurred; never when
\* either statement is outside an active transaction or a top-level COMMIT or
\* ROLLBACK separates them.
C7_NotValidValidateExactly ==
  walk.pc = "loop" /\ walk.i > 0
    => ("not-valid-validate-same-tx" \in walk.emitted
          <=> /\ isValidateConstraint(walk.stmt)
              /\ tx.active
              /\ <<walk.stmt.relname, walk.stmt.name>> \in ref.notValid)

\* the VALIDATE that follows its ADD ... NOT VALID inside one transaction is reported
C7_Witness ==
  /\ walk.pc = "loop" /\ isValidateConstraint(walk.stmt) /\ tx.active
  /\ "not-valid-validate-same-tx" \in walk.emitted

isConcurrentIndex(stmt) == stmt.nodeType = "IndexStmt" /\ stmt.concurrent

\* C8: concurrent-in-transaction is emitted for a statement exactly when it is an
\* IndexStmt whose concurrent flag is true and the transaction state is active at
\* that statement; a CREATE INDEX CONCURRENTLY placed after the transaction was
\* ended by a top-level COMMIT or ROLLBACK never emits it.
C8_ConcurrentInTransactionExactly ==
  walk.pc = "loop" /\ walk.i > 0
    => /\ "concurrent-in-transaction" \in walk.emitted
            <=> (isConcurrentIndex(walk.stmt) /\ tx.active)
       /\ (isConcurrentIndex(walk.stmt) /\ ref.endedTx)
            => "concurrent-in-transaction" \notin walk.emitted

\* CREATE INDEX CONCURRENTLY inside an open transaction is reported
C8_Witness ==
  /\ walk.pc = "loop" /\ isConcurrentIndex(walk.stmt) /\ tx.active
  /\ "concurrent-in-transaction" \in walk.emitted

\* C9 as stated: lock-timeout-after-dangerous-statement is emitted for a file
\* exactly when the file contains a SET lock_timeout and the first ACCESS EXCLUSIVE
\* statement comes before the first SET lock_timeout.
C9_OrderingAnySet ==
  walk.pc = "done"
    => ("lock-timeout-after-dangerous-statement" \in walk.emitted
          <=> /\ ref.firstSet > 0
              /\ ref.firstAE > 0
              /\ ref.firstAE < ref.firstSet)

\* C9: lock-timeout-after-dangerous-statement is emitted for a file exactly when
\* the file contains a SET lock_timeout that gives a value (its kind is neither
\* VAR_SET_DEFAULT nor VAR_RESET) and the first ACCESS EXCLUSIVE statement comes
\* before the first such SET; it is not emitted when such a SET comes before the
\* first ACCESS EXCLUSIVE statement or when there is no ACCESS EXCLUSIVE statement.
C9_OrderingValueSet ==
  walk.pc = "done"
    => ("lock-timeout-after-dangerous-statement" \in walk.emitted
          <=> /\ ref.firstSetValue > 0
              /\ ref.firstAE > 0
              /\ ref.firstAE < ref.firstSetValue)

\* a file whose first value-giving SET lock_timeout follows an ACCESS EXCLUSIVE
\* statement and a SET lock_timeout TO DEFAULT is reported
C9_Witness ==
  /\ walk.pc = "done"
  /\ "lock-timeout-after-dangerous-statement" \in walk.emitted
  /\ ref.firstAE < ref.firstSet /\ ref.firstSet < ref.firstSetValue

-----------------------------------------------------------------------------
(* Claims about inline directives, under SpecAnalyze *)

\* the 1-based index in sql of the text of the k-th statement
RECURSIVE bodyIndex(_, _, _)
bodyIndex(sql, k, from) ==
  IF from > Len(sql) THEN 0
  ELSE IF sql[from] = "stmt"
       THEN IF k = 1 THEN from ELSE bodyIndex(sql, k - 1, from + 1)
       ELSE bodyIndex(sql, k, from + 1)

\* the k-th statement of the file is annotated with a bare directive: a comment
\* "-- pgfence-ignore" stands between the ";" before the statement (or the
\* start of the file) and the statement's text
bareAnnotated(sql, k) ==
  LET b == bodyIndex(sql, k, 1) IN
  /\ b > 0
  /\ \E p \in 1..(b - 3) :
       /\ sql[p] = "--" /\ sql[p + 1] = "pgfence-ignore" /\ sql[p + 2] = "\n"
       /\ \A q \in p..b : sql[q] # ";"

\* C10: for every statement annotated with a bare -- pgfence-ignore directive, the
\* final result set of the file contains no finding of that statement, whichever
\* built-in or plugin rules match it.
C10_BareIgnoreSuppressesAll ==
  an.pc = "done"
    => \A k \in 1..Len(an.stmts) :
         bareAnnotated(an.sql, k) => ~\E c \in an.checks : c.stmt = k

\* the rule named by the directive comment that starts at index p of sql: "*" for a
\* bare directive, "" when no directive starts there
directiveAt(sql, p) ==
  IF unitAt(sql, p) # "--" THEN ""
  ELSE CASE unitAt(sql, p + 1) = "pgfence-ignore" /\ unitAt(sql, p + 2) = ": r1" -> "r1"
         [] unitAt(sql, p + 1) = "pgfence-ignore" -> "*"
         [] unitAt(sql, p + 1) = "pgfence: ignore r2" -> "r2"
         [] OTHER -> ""

\* the rules named by the directives that annotate the k-th statement: those
\* between the ";" before the statement (or the start of the file) and its text
annotations(sql, k) ==
  LET b == bodyIndex(sql, k, 1) IN
  IF b = 0 THEN {}
  ELSE {directiveAt(sql, p) : p \in {q \in 1..b : \A j \in q..b : sql[j] # ";"}} \ {""}

\* C11: for every statement annotated with -- pgfence-ignore: R or the legacy
\* -- pgfence: ignore R, the result set has no finding with rule ID R for that
\* statement, and every finding of a rule ID no directive of the statement names,
\* reported when the statement carries no directive, is still reported.
C11_SpecificIgnoreSuppressesOnlyNamed ==
  an.pc = "done"
    => \A k \in 1..Len(an.stmts) :
         LET named == annotations(an.sql, k) IN
         (named # {} /\ "*" \notin named)
           => /\ \A R \in named : [stmt |-> k, ruleId |-> R] \notin an.checks
              /\ \A c \in an.unsuppressed :
                   (c.stmt = k /\ c.ruleId \notin named) => c \in an.checks

\* the rules named by the directives that stand between the text of the statement
\* before the k-th one (or the start of the file) and the text of the k-th one:
\* the directives whose next statement is the k-th
precedingDirectives(sql, k) ==
  LET b == bodyIndex(sql, k, 1)
      a == IF k = 1 THEN 0 ELSE bodyIndex(sql, k - 1, 1)
  IN IF b = 0 THEN {} ELSE {directiveAt(sql, p) : p \in (a + 1)..b} \ {""}

\* C12: a directive affects only the statement that follows it: a finding of a
\* statement is suppressed by the inline filter only when a directive that names
\* its rule (or a bare one) stands between the previous statement and this one.
C12_DirectiveAffectsNextStatementOnly ==
  an.pc = "done"
    => \A c \in an.unsuppressed \ an.checks :
         LET named == precedingDirectives(an.sql, c.stmt) IN
         "*" \in named \/ c.ruleId \in named

-----------------------------------------------------------------------------
(* Claims about analyze over a batch of files and the CLI, under SpecCli *)

\* the lower-cased names of the tables created by a CREATE TABLE before
\* statement k of file g: in an earlier file, or earlier in file g
createdBefore(files, g, k) ==
  {toLowerCase(files[h][j].relname) :
     <<h, j>> \in {<<h2, j2>> \in (1..Len(files)) \X (1..MaxFileStmts + 1) :
                     /\ j2 <= Len(files[h2])
                     /\ files[h2][j2].nodeType = "CreateStmt"
                     /\ h2 < g \/ (h2 = g /\ j2 < k)}}

\* the findings of the results pushed so far
reported ==
  IF batch.pc = "idle" THEN {}
  ELSE UNION {batch.results[r].checks : r \in 1..Len(batch.results)}

\* the findings the rules raised, with the adjusted risk the report gives them
raisedAdjusted ==
  IF batch.pc = "idle" THEN {}
  ELSE {[f EXCEPT !.check = withAdjustedRisk(@, batch.tableStats)] : f \in batch.raised}

\* C13: the results hold no finding on a table that a CREATE TABLE earlier in the
\* batch created (an earlier file, or earlier in the same file; names compared
\* case-insensitively), unless the finding's rule has appliesToNewTables
C13_NoFindingOnCreatedTable ==
  \A f \in reported :
    (/\ f.check.tableName # NoTable
     /\ toLowerCase(f.check.tableName) \in createdBefore(batch.files, f.file, f.stmt))
      => f.check.appliesToNewTables

\* a finding of the second file, on a table the first file created under a name
\* of another case, was raised and is not in the results; the finding of an
\* appliesToNewTables rule on the same statement is
C13_Witness ==
  /\ batch.pc = "done"
  /\ \E f \in raisedAdjusted :
       /\ f.file = 2
       /\ ~f.check.appliesToNewTables
       /\ f.check.tableName = "t1"
       /\ "t1" \in createdBefore(batch.files, 2, 1)
       /\ f \notin reported
       /\ \E g \in reported :
            g.file = 2 /\ g.stmt = f.stmt /\ g.check.tableName = "t1"
            /\ g.check.appliesToNewTables

\* C14: a finding raised by statement i of a file on table T is missing from the
\* file's result only if a CREATE TABLE of an earlier file, or of the same file
\* up to statement i, created T (the statement's own CREATE TABLE is counted in
\* favour of the property); a CREATE TABLE later in the file or in a later file
\* never suppresses it
C14_OnlyEarlierCreateSuppresses ==
  \A f \in raisedAdjusted :
    (f.file <= Len(batch.results) /\ f \notin reported)
      => /\ f.check.tableName # NoTable
         /\ toLowerCase(f.check.tableName) \in createdBefore(batch.files, f.file, f.stmt + 1)

\* the same property with the later statements of the finding's own file counted
\* too: what the created-tables prepass gives
C14_OnlyBatchSoFarSuppresses ==
  \A f \in raisedAdjusted :
    (f.file <= Len(batch.results) /\ f \notin reported)
      => /\ f.check.tableName # NoTable
         /\ toLowerCase(f.check.tableName) \in createdBefore(batch.files, f.file + 1, 1)

\* some finding that survived the filters has an effective risk above the allowed
exceedsAllowed ==
  \E f \in reported : riskIndex(effectiveRisk(f.check)) > riskIndex(cli.maxAllowedRisk)

\* some policy violation of some file has severity error
hasPolicyError ==
  \E r \in 1..Len(batch.results) :
    \E v \in batch.results[r].policyViolations : v.severity = "error"

\* C15: in CI mode, after an analysis that completed, the exit code is 1 exactly
\* when some file's maximum effective risk (the adjusted risk where present, over
\* the findings that survived filtering) is above the max-allowed risk or some
\* policy violation has severity error, and 0 otherwise
C15_CiExitCode ==
  (cli.pc = "exited" /\ batch.pc = "done" /\ cli.ci)
    => cli.exitCode = (IF exceedsAllowed \/ hasPolicyError THEN 1 ELSE 0)

\* CI mode exits 1 with no policy error and no base risk above the allowed one:
\* only the adjusted risk of a finding exceeds it
C15_Witness ==
  /\ cli.pc = "exited"
  /\ batch.pc = "done"
  /\ cli.ci
  /\ cli.exitCode = 1
  /\ ~hasPolicyError
  /\ \A f \in reported : riskIndex(f.check.risk) <= riskIndex(cli.maxAllowedRisk)
  /\ \E f \in reported : f.check.adjustedRisk = "CRITICAL"

\* CI mode exits 0 with a finding exactly at the allowed risk
C15_WitnessPass ==
  /\ cli.pc = "exited"
  /\ batch.pc = "done"
  /\ cli.ci
  /\ cli.exitCode = 0
  /\ \E f \in reported : effectiveRisk(f.check) = cli.maxAllowedRisk

\* C16: a malformed CLI value (an unknown --max-risk level, or a --stats-file
\* that is unreadable, unparseable or of the wrong shape) makes the process write
\* a single line on the error stream and exit with code 2, never 0 or 1
C16_MalformedValueExitsTwo ==
  (cli.pc = "exited" /\ cli.malformed # "none")
    => /\ cli.exitCode = 2
       /\ Len(cli.stderr) = 1

\* the checks of a statement with every plugin rule that throws on it taken out
\* of the plugin list
checksWithoutFaulty(plugins, stmt) ==
  applyRules(stmt)
  \cup {CheckResult(plugins.rules[j].ruleId, stmt.relname, "MEDIUM", FALSE) :
          j \in {k \in 1..Len(plugins.rules) :
                   pluginCheck(plugins.rules[k], stmt) = "returns"}}

\* the plugin violations of a file with every plugin policy that throws taken out
violationsWithoutFaulty(plugins) ==
  {PolicyViolation(plugins.policies[j].ruleId, "error") :
     j \in {k \in 1..Len(plugins.policies) : plugins.policies[k].onFile = "returns"}}

pluginPolicyIds(plugins) == {plugins.policies[j].ruleId : j \in 1..Len(plugins.policies)}

\* C17: a plugin rule or policy that throws is swallowed: the checks raised for
\* every statement checked so far, and the policy violations of every file, are
\* those of the built-in rules and of the other plugin checks, as if the faulty
\* check were absent, and none comes from the faulty check
C17_ThrowingPluginIsSwallowed ==
  batch.pc # "idle" =>
    /\ \A g \in 1..Len(batch.files) : \A k \in 1..Len(batch.files[g]) :
         (g < Len(batch.files) \/ k <= batch.i)
           => {f.check : f \in {h \in batch.raised : h.file = g /\ h.stmt = k}}
                = checksWithoutFaulty(batch.plugins, batch.files[g][k])
    /\ \A r \in 1..Len(batch.results) :
         LET violations == batch.results[r].policyViolations
             fromPlugins == {v \in violations : v.ruleId \in pluginPolicyIds(batch.plugins)}
         IN /\ fromPlugins = violationsWithoutFaulty(batch.plugins)
            /\ (violations \ fromPlugins) \in BuiltInPolicies

\* the batch is analyzed to its end with a first plugin rule that threw on a
\* statement and a first plugin policy that threw on a file; the second rule's
\* finding for that statement and the second policy's violation are reported
C17_Witness ==
  /\ batch.pc = "done"
  /\ Len(batch.plugins.rules) = 2
  /\ batch.plugins.rules[1].onAlter = "throws"
  /\ batch.plugins.policies[1].onFile = "throws"
  /\ \E f \in reported :
       /\ f.check.ruleId = batch.plugins.rules[2].ruleId
       /\ f.file = 2
       /\ \A h \in batch.raised :
            (h.file = 2 /\ h.stmt = f.stmt) => h.check.ruleId # batch.plugins.rules[1].ruleId
  /\ PolicyViolation(batch.plugins.policies[2].ruleId, "error")
       \in batch.results[2].policyViolations

-----------------------------------------------------------------------------
(* Claims about adjustRisk, under SpecRisk *)

\* C18: risk adjustment is monotonic in the row count: of two calls with the same
\* base risk, the one with the larger row count returns a risk at least as high,
\* in the order SAFE < LOW < MEDIUM < HIGH < CRITICAL
C18_AdjustRiskMonotonic ==
  (/\ calc.pc = "called"
   /\ calc.before # NoCall
   /\ calc.before.baseRisk = calc.last.baseRisk
   /\ calc.before.rowCount <= calc.last.rowCount)
    => riskIndex(calc.before.result) <= riskIndex(calc.last.result)

\* two calls with the same base risk, the second with more rows and a strictly
\* higher result
C18_Witness ==
  /\ calc.pc = "called"
  /\ calc.before # NoCall
  /\ calc.before.baseRisk = calc.last.baseRisk
  /\ calc.before.rowCount < calc.last.rowCount
  /\ riskIndex(calc.before.result) < riskIndex(calc.last.result)

\* the level that lies `levels` above `risk`, capped at CRITICAL
raisedBy(risk, levels) ==
  CHOOSE r \in RiskLevels :
    riskIndex(r) = (IF riskIndex(risk) + levels > 4 THEN 4 ELSE riskIndex(risk) + levels)

-----------------------------------------------------------------------------
(* Claims about the built-in rules, under SpecRules *)

\* C20: every finding of a built-in rule whose base risk is HIGH or CRITICAL
\* carries a safeRewrite with at least one step, for every statement shape and
\* every configured minimum PostgreSQL version
C20_HighRiskHasSafeRewrite ==
  calc.pc = "checked" =>
    \A check \in calc.results :
      check.risk \in {"HIGH", "CRITICAL"} => (check.hasSafeRewrite /\ check.steps >= 1)

\* DETACH PARTITION without CONCURRENTLY, checked for a PostgreSQL version that
\* has no DETACH ... CONCURRENTLY: the HIGH finding carries the fallback rewrite
C20_Witness ==
  /\ calc.pc = "checked"
  /\ calc.stmt.nodeType = "AlterTableStmt"
  /\ calc.stmt.subtype = "AT_DetachPartition"
  /\ calc.minPostgresVersion < 14
  /\ \E check \in calc.results :
       check.ruleId = "detach-partition" /\ check.risk = "HIGH" /\ check.steps = 3

\* the ADD COLUMN rows of the rule catalogue: the rules whose AST pattern the
\* command matches, each with its tabulated base risk
addColumnPatterns(stmt, minPostgresVersion) ==
  (IF stmt.hasNotNull /\ stmt.defaultExpr = "none"
   THEN {<<"add-column-not-null-no-default", "HIGH">>} ELSE {})
  \cup (IF stmt.defaultExpr \in {"A_Const", "TypeCast(A_Const)"} /\ minPostgresVersion >= 11
        THEN {<<"add-column-constant-default", "LOW">>} ELSE {})
  \cup (IF stmt.defaultExpr \in {"TypeCast(FuncCall)", "FuncCall"}
        THEN {<<"add-column-non-constant-default", "HIGH">>} ELSE {})
  \cup (IF stmt.defaultExpr \in {"A_Const", "TypeCast(A_Const)"} /\ minPostgresVersion < 11
        THEN {<<"add-column-default-pre-pg11", "HIGH">>} ELSE {})
  \cup (IF stmt.typeName = "json" THEN {<<"add-column-json", "LOW">>} ELSE {})
  \cup (IF stmt.typeName = "serial" THEN {<<"add-column-serial", "MEDIUM">>} ELSE {})
  \cup (IF stmt.hasStoredGenerated
        THEN {<<"add-column-stored-generated", "HIGH">>} ELSE {})

\* C21: for every ADD COLUMN command and every ADD COLUMN rule of the catalogue
\* whose AST pattern the command matches, the results hold a finding with that
\* rule's ID and base risk (the lock mode is ACCESS EXCLUSIVE in every finding of
\* checkAddColumn), whatever other ADD COLUMN patterns the column matches
C21_EveryMatchingAddColumnRuleFires ==
  (calc.pc = "checked" /\ calc.stmt.nodeType = "AlterTableStmt"
     /\ calc.stmt.subtype = "AT_AddColumn")
    => \A row \in addColumnPatterns(calc.stmt, calc.minPostgresVersion) :
         \E check \in calc.results : check.ruleId = row[1] /\ check.risk = row[2]

\* the same property for the commands that are not NOT NULL without DEFAULT
C21_FiresUnlessNotNullNoDefault ==
  (calc.pc = "checked" /\ calc.stmt.nodeType = "AlterTableStmt"
     /\ calc.stmt.subtype = "AT_AddColumn"
     /\ ~(calc.stmt.hasNotNull /\ calc.stmt.defaultExpr = "none"))
    => {<<check.ruleId, check.risk>> : check \in calc.results}
         = addColumnPatterns(calc.stmt, calc.minPostgresVersion)

\* ---------------------------------------------------------------------------
\* Knex extractor (extractors/knex.ts, extractors/knex-transpiler.ts)
\* ---------------------------------------------------------------------------

\* the up function holds at most this many call sites
MaxKnexCalls == 2

KnexNull == "null"

\* argument nodes: a string literal, a template literal without expressions,
\* a template literal with expressions, an identifier, a callback
StaticNodes == {"Literal", "TemplateLiteral"}
DynamicNodes == {"TemplateLiteral${}", "Identifier"}

extractStringValue(node) ==
  IF node = "Literal" THEN "string"
  ELSE IF node = "TemplateLiteral" THEN "string"
  ELSE KnexNull

getStringArg(node) ==
  IF node = "Literal" THEN "string"
  ELSE IF node = "TemplateLiteral" THEN "string"
  ELSE KnexNull

SCHEMA_BUILDER_METHODS ==
  {"createTable", "alterTable", "dropTable", "renameTable", "dropColumn", "renameColumn"}

KNEX_TYPE_MAP == {"string"}

isRawCall(node) == node.method = "raw" /\ node.object \in {"knex", "knex.schema"}

isSchemaBuilderCall(node) ==
  node.method \in SCHEMA_BUILDER_METHODS /\ node.object = "knex.schema"

\* the calls on the table builder inside a callback
BuilderCall(method, arguments) == [method |-> method, arguments |-> arguments]

BuilderCalls ==
  {BuilderCall("string", a) : a \in {<<>>, <<"Literal">>, <<"Identifier">>}}
    \cup {BuilderCall("dropColumn", a) : a \in {<<"Literal">>, <<"Identifier">>}}
    \cup {BuilderCall("renameColumn", a) :
            a \in {<<"Literal", "Literal">>, <<"Identifier", "Literal">>}}

KnexBodies ==
  {<<>>} \cup {<<a>> : a \in BuilderCalls} \cup {<<a, b>> : a, b \in BuilderCalls}

KnexWarning(line, message) == [line |-> line, message |-> message]

definesColumn(call) ==
  /\ call.method \in KNEX_TYPE_MAP
  /\ Len(call.arguments) > 0
  /\ getStringArg(call.arguments[1]) # KnexNull

lacksColumnName(call) == call.method \in KNEX_TYPE_MAP /\ Len(call.arguments) = 0

\* parseColumnChain over every chain of the callback: the columns it yields
extractColumnDefs(body) == SelectSeq(body, definesColumn)

\* the warnings parseColumnChain pushes while the columns are extracted
extractColumnWarnings(body, line) ==
  [i \in 1..Len(SelectSeq(body, lacksColumnName)) |->
     KnexWarning(line, "Knex column builder without column name")]

TranspileResult(sql, warnings) == [sql |-> sql, warnings |-> warnings]

transpileCreateTable(node, line, ifNotExists) ==
  IF Len(node.arguments) < 2 THEN TranspileResult(<<>>, <<>>)
  ELSE IF getStringArg(node.arguments[1]) = KnexNull
  THEN TranspileResult(<<>>, <<KnexWarning(line, "Dynamic table name in createTable")>>)
  ELSE IF node.arguments[2] # "ArrowFunctionExpression"
  THEN TranspileResult(<<>>, <<KnexWarning(line, "Non-function callback in createTable")>>)
  ELSE TranspileResult(
         <<[stmt |-> IF ifNotExists THEN "CREATE TABLE IF NOT EXISTS" ELSE "CREATE TABLE",
            columns |-> Len(extractColumnDefs(node.body))]>>,
         extractColumnWarnings(node.body, line))

\* the statement the second walk of transpileAlterTable pushes for one call
alterationOf(call) ==
  IF call.method = "dropColumn"
  THEN IF Len(call.arguments) > 0 /\ getStringArg(call.arguments[1]) # KnexNull
       THEN <<[stmt |-> "ALTER TABLE DROP COLUMN", columns |-> 1]>> ELSE <<>>
  ELSE IF call.method = "renameColumn"
  THEN IF /\ Len(call.arguments) >= 2
          /\ getStringArg(call.arguments[1]) # KnexNull
          /\ getStringArg(call.arguments[2]) # KnexNull
       THEN <<[stmt |-> "ALTER TABLE RENAME COLUMN", columns |-> 1]>> ELSE <<>>
  ELSE <<>>

RECURSIVE alterations(_)
alterations(body) ==
  IF body = <<>> THEN <<>> ELSE alterationOf(Head(body)) \o alterations(Tail(body))

transpileAlterTable(node, line) ==
  IF Len(node.arguments) < 2 THEN TranspileResult(<<>>, <<>>)
  ELSE IF getStringArg(node.arguments[1]) = KnexNull
  THEN TranspileResult(<<>>, <<KnexWarning(line, "Dynamic table name in alterTable")>>)
  ELSE IF node.arguments[2] # "ArrowFunctionExpression"
  THEN TranspileResult(<<>>, <<>>)
  ELSE TranspileResult(
         [i \in 1..Len(extractColumnDefs(node.body)) |->
            [stmt |-> "ALTER TABLE ADD COLUMN", columns |-> 1]]
           \o alterations(node.body),
         extractColumnWarnings(node.body, line))

transpileDropTable(node, line, ifExists) ==
  IF Len(node.arguments) < 1 THEN TranspileResult(<<>>, <<>>)
  ELSE IF getStringArg(node.arguments[1]) # KnexNull
  THEN TranspileResult(
         <<[stmt |-> IF ifExists THEN "DROP TABLE IF EXISTS" ELSE "DROP TABLE",
            columns |-> 0]>>, <<>>)
  ELSE TranspileResult(<<>>, <<KnexWarning(line, "Dynamic table name in dropTable")>>)

transpileRenameTable(node, line) ==
  IF Len(node.arguments) < 2 THEN TranspileResult(<<>>, <<>>)
  ELSE IF /\ getStringArg(node.arguments[1]) # KnexNull
          /\ getStringArg(node.arguments[2]) # KnexNull
  THEN TranspileResult(<<[stmt |-> "ALTER TABLE RENAME TO", columns |-> 0]>>, <<>>)
  ELSE TranspileResult(<<>>, <<KnexWarning(line, "Dynamic table name in renameTable")>>)

transpileKnexSchemaCall(node, line) ==
  IF node.method = "createTable" THEN transpileCreateTable(node, line, FALSE)
  ELSE IF node.method = "createTableIfNotExists" THEN transpileCreateTable(node, line, TRUE)
  ELSE IF node.method = "alterTable" THEN transpileAlterTable(node, line)
  ELSE IF node.method = "dropTable" THEN transpileDropTable(node, line, FALSE)
  ELSE IF node.method = "dropTableIfExists" THEN transpileDropTable(node, line, TRUE)
  ELSE IF node.method = "renameTable" THEN transpileRenameTable(node, line)
  ELSE IF node.method = "raw" THEN TranspileResult(<<>>, <<>>)
  ELSE TranspileResult(<<>>, <<KnexWarning(line, "Unsupported Knex schema builder method")>>)

\* the call expressions of an up function
KnexCall(object, method, arguments, body, conditionalDepth) ==
  [object |-> object, method |-> method, arguments |-> arguments, body |-> body,
   conditionalDepth |-> conditionalDepth]

KnexCallSites ==
  {KnexCall(object, "raw", a, <<>>, depth) :
     object \in {"knex", "knex.schema"},
     a \in {<<>>} \cup {<<n>> : n \in StaticNodes \cup DynamicNodes},
     depth \in {0, 1}}
    \cup {KnexCall("knex.schema", method, <<name, "ArrowFunctionExpression">>, body, 0) :
            method \in {"createTable", "createTableIfNotExists", "alterTable"},
            name \in {"Literal", "Identifier"}, body \in KnexBodies}
    \cup {KnexCall("knex.schema", method, <<name, "Identifier">>, <<>>, 0) :
            method \in {"createTable", "createTableIfNotExists", "alterTable"},
            name \in {"Literal", "Identifier"}}
    \cup {KnexCall("knex.schema", method, <<name>>, <<>>, 0) :
            method \in {"dropTable", "dropTableIfExists"},
            name \in {"Literal", "Identifier"}}
    \cup {KnexCall("knex.schema", "renameTable", <<from, to>>, <<>>, 0) :
            from \in {"Literal", "Identifier"}, to \in {"Literal", "Identifier"}}

\* what enter(node) adds to queries and warnings for one call expression
enterCall(node, line) ==
  IF isRawCall(node)
  THEN IF Len(node.arguments) = 0 THEN TranspileResult(<<>>, <<>>)
       ELSE IF extractStringValue(node.arguments[1]) # KnexNull
       THEN TranspileResult(
              <<[stmt |-> "raw", columns |-> 0]>>,
              IF node.conditionalDepth > 0
              THEN <<KnexWarning(line, "Conditional SQL")>> ELSE <<>>)
       ELSE TranspileResult(<<>>, <<KnexWarning(line, "Dynamic SQL")>>)
  ELSE IF isSchemaBuilderCall(node)
  THEN LET result == transpileKnexSchemaCall(node, line)
       IN  IF Len(result.sql) > 0
           THEN result
           ELSE TranspileResult(
                  <<>>,
                  <<KnexWarning(line, "Schema builder call - could not transpile to SQL")>>
                    \o result.warnings)
  ELSE TranspileResult(<<>>, <<>>)

NoKnexCall == KnexCall("none", "none", <<>>, <<>>, 0)

knexStart == [pc |-> "knex"]

\* extractKnexSQL up to the walk: the up function is looked up
FindUpFunction ==
  /\ calc.pc = "knex"
  /\ \E found \in BOOLEAN :
       calc' = IF found
               THEN [pc |-> "walking", line |-> 0, node |-> NoKnexCall,
                     queries |-> <<>>, warnings |-> <<>>]
               ELSE [pc |-> "returned", line |-> 0, node |-> NoKnexCall,
                     queries |-> <<>>,
                     warnings |-> <<KnexWarning(1, "No up() or exports.up function found")>>]
  /\ UNCHANGED <<tx, op, snapHist, walk, ref, an, batch, cli>>

\* the walk enters the next call expression of the up function
EnterCall ==
  /\ calc.pc = "walking"
  /\ calc.line < MaxKnexCalls
  /\ \E node \in KnexCallSites :
       LET line == calc.line + 1
           added == enterCall(node, line)
       IN  calc' = [calc EXCEPT !.line = line, !.node = node,
                                !.queries = @ \o added.sql,
                                !.warnings = @ \o added.warnings]
  /\ UNCHANGED <<tx, op, snapHist, walk, ref, an, batch, cli>>

\* the walk is over and the result is returned
ReturnExtraction ==
  /\ calc.pc = "walking"
  /\ calc' = [calc EXCEPT !.pc = "returned"]
  /\ UNCHANGED <<tx, op, snapHist, walk, ref, an, batch, cli>>

InitKnex ==
  /\ tx = createTransactionState
  /\ op = NoOp
  /\ snapHist = <<>>
  /\ walk = walkIdle
  /\ ref = refIdle
  /\ an = anIdle
  /\ batch = batchIdle
  /\ cli = cliIdle
  /\ calc = knexStart

NextKnex == FindUpFunction \/ EnterCall \/ ReturnExtraction

SpecKnex == InitKnex /\ [][NextKnex]_vars

\* a builder call of a callback whose column name is not a static literal
hasDynamicColumnName(call) ==
  \E i \in 1..Len(call.arguments) : call.arguments[i] \in DynamicNodes

\* the call site determines its SQL by an argument that is not a static literal
hasDynamicArgument(node) ==
  \/ /\ node.method = "raw"
     /\ Len(node.arguments) > 0
     /\ node.arguments[1] \in DynamicNodes
  \/ /\ node.object = "knex.schema"
     /\ node.method \in {"createTable", "createTableIfNotExists", "alterTable",
                         "dropTable", "dropTableIfExists", "renameTable"}
     /\ \/ node.arguments[1] \in DynamicNodes
        \/ node.method = "renameTable" /\ node.arguments[2] \in DynamicNodes
        \/ \E i \in 1..Len(node.body) : hasDynamicColumnName(node.body[i])

warnedAt(line) == \E i \in 1..Len(calc.warnings) : calc.warnings[i].line = line

\* C22: whenever the walk has entered a raw call or a schema-builder call whose
\* SQL text, table name or column name is not a static literal, the warnings
\* hold at least one warning for that call site
C22_DynamicArgumentWarns ==
  (calc.pc \in {"walking", "returned"} /\ calc.line > 0 /\ hasDynamicArgument(calc.node))
    => warnedAt(calc.line)

\* the part that holds: a raw call with dynamic SQL text and a createTable,
\* alterTable, dropTable or renameTable call with a dynamic table name warn
C22_DynamicTextOrTableNameWarns ==
  (/\ calc.pc \in {"walking", "returned"}
   /\ calc.line > 0
   /\ calc.node.method \in {"raw", "createTable", "alterTable", "dropTable", "renameTable"}
   /\ Len(calc.node.arguments) > 0
   /\ \/ calc.node.arguments[1] \in DynamicNodes
      \/ calc.node.method = "renameTable" /\ calc.node.arguments[2] \in DynamicNodes)
    => warnedAt(calc.line)


\* the names on a savepoint stack
namesOn(savepoints) == {savepoints[j] : j \in 1..Len(savepoints)}

\* C23: a RELEASE s that finds s on the stack removes s and every savepoint
\* above it from the stack and removes the lock-map snapshot of every removed
\* savepoint: no removed name that has left the stack keeps a snapshot
C23_ReleaseDiscardsSnapshots ==
  [][(op'.kind = "TRANS_STMT_RELEASE" /\ op'.found)
       => /\ tx'.savepoints =
               SubSeq(tx.savepoints, 1, lastIndexOf(tx.savepoints, op'.name) - 1)
          /\ \A name \in namesOn(tx.savepoints) \ namesOn(tx'.savepoints) :
               name \notin DOMAIN tx'.savepointSnapshots]_vars

\* the part that holds: the stack is cut below the last s and the snapshot
\* stored under the name s is removed
C23_ReleasePopsStack ==
  [][(op'.kind = "TRANS_STMT_RELEASE" /\ op'.found)
       => /\ tx'.savepoints =
               SubSeq(tx.savepoints, 1, lastIndexOf(tx.savepoints, op'.name) - 1)
          /\ op'.name \notin DOMAIN tx'.savepointSnapshots]_vars


\* the stronger of two lock modes in the LockMode order
strongerMode(a, b) == IF lockModeRank(a) >= lockModeRank(b) THEN a ELSE b

\* C25: every recordLock call on a table leaves in the lock map, for that table,
\* the maximum in the LockMode order of the mode held before and the mode
\* recorded, and leaves every other entry alone; by induction over a sequence
\* of recordLock calls the entry is the maximum of all modes recorded, and a
\* weaker mode never downgrades it
C25_LockMapKeepsStrongestMode ==
  [][(op'.kind = "recordLock" /\ op'.table # NoTable)
       => LET table == toLowerCase(op'.table) IN
          /\ DOMAIN tx'.locksHeld = DOMAIN tx.locksHeld \cup {table}
          /\ tx'.locksHeld[table] =
               IF table \in DOMAIN tx.locksHeld
               THEN strongerMode(tx.locksHeld[table], op'.mode)
               ELSE op'.mode
          /\ \A other \in DOMAIN tx.locksHeld \ {table} :
               tx'.locksHeld[other] = tx.locksHeld[other]]_vars

\* C25 witness: SHARE has just been recorded on a table held in ACCESS EXCLUSIVE
\* mode, and the entry is still ACCESS EXCLUSIVE
C25_Witness ==
  /\ op.kind = "recordLock" /\ op.table = "T1" /\ op.mode = "SHARE"
  /\ tx.statementsInTx = 2
  /\ "t1" \in DOMAIN tx.locksHeld /\ tx.locksHeld["t1"] = "ACCESS EXCLUSIVE"


-----------------------------------------------------------------------------
(* SpecTimeouts: checkPolicies under a given configuration, over files of SET *)
(* statements on the two timeouts and one ACCESS EXCLUSIVE statement          *)

MaxTimeoutStmts == 3

TimeoutStmts ==
  {VariableSetStmt("lock_timeout", "VAR_SET_VALUE", ival) : ival \in {0, 6000}}
    \cup {VariableSetText("lock_timeout", sval) : sval \in {<<0, "">>, <<2, "s">>}}
    \cup {VariableSetStmt("lock_timeout", kind, -1) :
            kind \in {"VAR_SET_DEFAULT", "VAR_SET_CURRENT"}}
    \cup {VariableSetStmt("statement_timeout", "VAR_SET_VALUE", 30000),
          VariableSetStmt("statement_timeout", "VAR_SET_CURRENT", -1)}
    \cup {AlterTableStmt("t1", "AT_AlterColumnType")}

\* the configuration checkPolicies is called with, and the SET statements of
\* the file walked so far
configStart(requireLockTimeout, requireStatementTimeout) ==
  [pc |-> "config", requireLockTimeout |-> requireLockTimeout,
   requireStatementTimeout |-> requireStatementTimeout, sets |-> {}]

InitTimeouts ==
  /\ tx = createTransactionState
  /\ op = NoOp
  /\ snapHist = <<>>
  /\ walk = walkStart(FALSE)
  /\ ref = refStart
  /\ an = anIdle
  /\ batch = batchIdle
  /\ cli = cliIdle
  /\ \E requireLockTimeout \in BOOLEAN, requireStatementTimeout \in BOOLEAN :
       calc = configStart(requireLockTimeout, requireStatementTimeout)

\* one iteration of the loop of checkPolicies
WalkTimeouts ==
  /\ walk.pc = "loop"
  /\ walk.i < MaxTimeoutStmts
  /\ \E stmt \in TimeoutStmts :
       LET r == loopBody(walk, tx, stmt) IN
         /\ walk' = r.w
         /\ tx' = r.t
         /\ ref' = refAfter(ref, tx, r.t, walk.i, walk.autoCommit, stmt)
         /\ calc' = IF stmt.nodeType = "VariableSetStmt"
                    THEN [calc EXCEPT !.sets = @ \cup {stmt}] ELSE calc
  /\ UNCHANGED <<op, snapHist, an, batch, cli>>

\* the checks after the loop, under the configuration of the call
FinishConfigured ==
  /\ walk.pc = "loop"
  /\ walk' = afterWalk(walk, calc.requireLockTimeout, calc.requireStatementTimeout)
  /\ ref' = [ref EXCEPT !.pc = "done"]
  /\ UNCHANGED <<tx, op, snapHist, an, batch, cli, calc>>

NextTimeouts == WalkTimeouts \/ FinishConfigured

SpecTimeouts == InitTimeouts /\ [][NextTimeouts]_vars

\* the SET statements on a timeout the file holds, and those of kind VAR_SET_VALUE
setsOf(name) == {stmt \in calc.sets : stmt.name = name}

valueSetsOf(name) == {stmt \in setsOf(name) : stmt.kind = "VAR_SET_VALUE"}

\* C24: a SET on lock_timeout or statement_timeout satisfies the
\* missing-lock-timeout / missing-statement-timeout requirement only when its
\* kind is VAR_SET_VALUE: a file with no VAR_SET_VALUE statement on a required
\* timeout is reported as missing it
C24_OnlyValueSetCounts ==
  walk.pc = "done"
    => /\ (calc.requireLockTimeout /\ valueSetsOf("lock_timeout") = {})
            => "missing-lock-timeout" \in walk.violations
       /\ (calc.requireStatementTimeout /\ valueSetsOf("statement_timeout") = {})
            => "missing-statement-timeout" \in walk.violations

\* the part that holds: a file whose SET statements on a required timeout are
\* all of kind VAR_SET_DEFAULT (or absent) is reported as missing it, and a
\* VAR_SET_VALUE statement always satisfies the requirement
C24_DefaultNeverCounts ==
  walk.pc = "done"
    => /\ (calc.requireLockTimeout
             /\ \A stmt \in setsOf("lock_timeout") : stmt.kind = "VAR_SET_DEFAULT")
            => "missing-lock-timeout" \in walk.violations
       /\ valueSetsOf("lock_timeout") # {} => "missing-lock-timeout" \notin walk.violations
       /\ valueSetsOf("statement_timeout") # {}
            => "missing-statement-timeout" \notin walk.violations

\* SET lock_timeout = 0 or SET lock_timeout = '0'
isZeroLockTimeout(stmt) ==
  /\ stmt.name = "lock_timeout" /\ stmt.kind = "VAR_SET_VALUE"
  /\ (stmt.ival = 0 \/ stmt.sval = <<0, "">>)

\* C30: with the lock-timeout requirement enabled, a file whose only SET on
\* lock_timeout is SET lock_timeout = 0 yields missing-lock-timeout or
\* lock-timeout-too-long
C30_ZeroLockTimeoutIsReported ==
  (/\ walk.pc = "done"
   /\ calc.requireLockTimeout
   /\ setsOf("lock_timeout") # {}
   /\ \A stmt \in setsOf("lock_timeout") : isZeroLockTimeout(stmt))
    => \/ "missing-lock-timeout" \in walk.violations
       \/ "lock-timeout-too-long" \in walk.violations

\* the part that holds: a lock_timeout above the maximum is reported as too long
C30_LongLockTimeoutIsReported ==
  (walk.pc = "done"
     /\ VariableSetStmt("lock_timeout", "VAR_SET_VALUE", 6000) \in calc.sets)
    => "lock-timeout-too-long" \in walk.violations


-----------------------------------------------------------------------------
(* SpecFiles: analyze() calls checkPolicies once for each file of the batch *)

MaxPolicyFiles == 2
MaxPolicyFileStmts == 3

FileStmts ==
  {TransactionStmt(k, NoName) : k \in {"TRANS_STMT_BEGIN", "TRANS_STMT_COMMIT"}}
    \cup {AlterTableStmt(x, "AT_AlterColumnType") : x \in PolicyTables}
    \cup {IndexStmt("t1", TRUE)}

\* a mutant of enterCheckPolicies: the transaction state outlives the call
enterCheckPoliciesSharedState(w, t, autoCommit) ==
  [w |-> walkStart(autoCommit), t |-> t]

\* policy.ts lines 76-96: the locals and the transaction state a call of
\* checkPolicies starts with, whatever the previous call left behind
enterCheckPolicies(w, t, autoCommit) ==
  [w |-> walkStart(autoCommit), t |-> createTransactionState]

\* checkPolicies as a function of one file: the loop over stmts from the state
\* (w, t), then the checks after the loop
RECURSIVE runCheckPolicies(_, _, _, _, _)
runCheckPolicies(stmts, w, t, requireLockTimeout, requireStatementTimeout) ==
  IF stmts = <<>>
  THEN afterWalk(w, requireLockTimeout, requireStatementTimeout).violations
  ELSE LET r == loopBody(w, t, Head(stmts))
       IN runCheckPolicies(Tail(stmts), r.w, r.t, requireLockTimeout,
                           requireStatementTimeout)

\* the violations of a file that is analyzed alone
checkPoliciesAlone(stmts, autoCommit, requireLockTimeout, requireStatementTimeout) ==
  runCheckPolicies(stmts, walkStart(autoCommit), createTransactionState,
                   requireLockTimeout, requireStatementTimeout)

filesStart(requireLockTimeout, requireStatementTimeout) ==
  [pc |-> "files", requireLockTimeout |-> requireLockTimeout,
   requireStatementTimeout |-> requireStatementTimeout,
   fileIndex |-> 0, stmts |-> <<>>, leftOpen |-> FALSE]

InitFiles ==
  /\ tx = createTransactionState
  /\ op = NoOp
  /\ snapHist = <<>>
  /\ walk = walkIdle
  /\ ref = refIdle
  /\ an = anIdle
  /\ batch = batchIdle
  /\ cli = cliIdle
  /\ \E requireLockTimeout \in BOOLEAN, requireStatementTimeout \in BOOLEAN :
       calc = filesStart(requireLockTimeout, requireStatementTimeout)

\* analyzer.ts line 175: checkPolicies is called for the next file of the batch
EnterFile ==
  /\ walk.pc \in {"idle", "done"}
  /\ calc.fileIndex < MaxPolicyFiles
  /\ \E autoCommit \in BOOLEAN :
       LET r == enterCheckPolicies(walk, tx, autoCommit) IN
         /\ walk' = r.w
         /\ tx' = r.t
  /\ calc' = [calc EXCEPT !.fileIndex = @ + 1, !.stmts = <<>>, !.leftOpen = tx.active]
  /\ UNCHANGED <<op, snapHist, ref, an, batch, cli>>

\* one iteration of the loop of checkPolicies over the file
WalkFileStmt ==
  /\ walk.pc = "loop"
  /\ Len(calc.stmts) < MaxPolicyFileStmts
  /\ \E stmt \in FileStmts :
       /\ stmt.kind = "TRANS_STMT_BEGIN" => tx.depth < MaxDepth
       /\ LET r == loopBody(walk, tx, stmt) IN
            /\ walk' = r.w
            /\ tx' = r.t
       /\ calc' = [calc EXCEPT !.stmts = Append(@, stmt)]
  /\ UNCHANGED <<op, snapHist, ref, an, batch, cli>>

\* the checks after the loop: the file's violations are returned
FinishFile ==
  /\ walk.pc = "loop"
  /\ walk' = afterWalk(walk, calc.requireLockTimeout, calc.requireStatementTimeout)
  /\ UNCHANGED <<tx, op, snapHist, ref, an, batch, cli, calc>>

NextFiles == EnterFile \/ WalkFileStmt \/ FinishFile

SpecFiles == InitFiles /\ [][NextFiles]_vars

\* C26: the policy violations reported for a file are those the same file gets
\* when it is analyzed alone, whatever files were analyzed before it in the
\* batch and whatever transaction they left open
C26_ViolationsAsIfAlone ==
  (walk.pc = "done" /\ calc.fileIndex >= 1)
    => walk.violations =
         checkPoliciesAlone(calc.stmts, walk.autoCommit, calc.requireLockTimeout,
                            calc.requireStatementTimeout)

\* C26 witness: the file before left a transaction open after an ACCESS
\* EXCLUSIVE statement on t1, and this file's ALTER TABLE on t2 and CREATE INDEX
\* CONCURRENTLY are not reported as inside that transaction
C26_Witness ==
  /\ walk.pc = "done" /\ calc.fileIndex = 2 /\ calc.leftOpen
  /\ calc.stmts = <<AlterTableStmt("t2", "AT_AlterColumnType"), IndexStmt("t1", TRUE)>>
  /\ ~walk.autoCommit
  /\ "wide-lock-window" \notin walk.violations
  /\ "concurrent-in-transaction" \notin walk.violations


-----------------------------------------------------------------------------
(* SpecSavepoints: checkPolicies over files of one transaction with a savepoint *)
(* and ACCESS EXCLUSIVE statements, with the history of the file kept beside    *)

MaxSavepointStmts == 5

SavepointStmts ==
  {TransactionStmt(k, NoName) : k \in {"TRANS_STMT_BEGIN", "TRANS_STMT_COMMIT"}}
    \cup {TransactionStmt(k, "a") : k \in {"TRANS_STMT_SAVEPOINT", "TRANS_STMT_ROLLBACK_TO"}}
    \cup {AlterTableStmt(x, "AT_AlterColumnType") : x \in PolicyTables}

\* the history of the file, told from its statements: anyAE, an ACCESS EXCLUSIVE
\* statement has run in the open transaction; marks[j], the value of anyAE when
\* the j-th savepoint of the stack was established; cleared, the transaction
\* was rolled back to a savepoint established before any ACCESS EXCLUSIVE
\* statement and no such statement has run since; aeOutside, an ACCESS
\* EXCLUSIVE statement has run outside a transaction
historyStart ==
  [pc |-> "history", anyAE |-> FALSE, marks |-> <<>>, cleared |-> FALSE,
   aeOutside |-> FALSE]

historyAfter(h, t, stmt) ==
  LET idx == lastIndexOf(t.savepoints, stmt.savepoint_name) IN
  CASE stmt.nodeType = "TransactionStmt" /\ stmt.kind = "TRANS_STMT_BEGIN" -> h
    [] isTopLevelEnd(t, stmt) ->
         [h EXCEPT !.anyAE = FALSE, !.marks = <<>>, !.cleared = FALSE]
    [] stmt.nodeType = "TransactionStmt" /\ stmt.kind = "TRANS_STMT_SAVEPOINT" ->
         [h EXCEPT !.marks = Append(@, h.anyAE)]
    [] stmt.nodeType = "TransactionStmt" /\ stmt.kind = "TRANS_STMT_ROLLBACK_TO"
         /\ idx >= 1 ->
         [h EXCEPT !.marks = SubSeq(@, 1, idx),
                   !.cleared = @ \/ (t.active /\ ~h.marks[idx])]
    [] isAccessExclusiveStatement(stmt) ->
         IF t.active THEN [h EXCEPT !.anyAE = TRUE, !.cleared = FALSE]
         ELSE [h EXCEPT !.aeOutside = TRUE]
    [] OTHER -> h

InitSavepoints ==
  /\ tx = createTransactionState
  /\ op = NoOp
  /\ snapHist = <<>>
  /\ \E autoCommit \in BOOLEAN : walk = walkStart(autoCommit)
  /\ ref = refStart
  /\ an = anIdle
  /\ batch = batchIdle
  /\ cli = cliIdle
  /\ calc = historyStart

\* one iteration of the loop of checkPolicies
WalkSavepoints ==
  /\ walk.pc = "loop"
  /\ walk.i < MaxSavepointStmts
  /\ \E stmt \in SavepointStmts :
       /\ stmt.kind = "TRANS_STMT_BEGIN" => tx.depth < MaxDepth
       /\ stmt.kind = "TRANS_STMT_SAVEPOINT" => Len(tx.savepoints) < MaxSavepoints
       /\ LET r == loopBody(walk, tx, stmt) IN
            /\ walk' = r.w
            /\ tx' = r.t
            /\ ref' = refAfter(ref, tx, r.t, walk.i, walk.autoCommit, stmt)
       /\ calc' = historyAfter(calc, tx, stmt)
  /\ UNCHANGED <<op, snapHist, an, batch, cli>>

NextSavepoints == WalkSavepoints \/ Finish

SpecSavepoints == InitSavepoints /\ [][NextSavepoints]_vars

\* the statement of this step is the next ACCESS EXCLUSIVE statement after a
\* ROLLBACK TO a savepoint that was established before any ACCESS EXCLUSIVE
\* statement of the open transaction (and none ran outside a transaction)
firstAccessExclusiveAfterRollback ==
  /\ walk'.i = walk.i + 1
  /\ isAccessExclusiveStatement(walk'.stmt)
  /\ tx.active
  /\ calc.cleared
  /\ ~calc.aeOutside

\* C27: within an active transaction, after ROLLBACK TO a savepoint established
\* before any ACCESS EXCLUSIVE statement of the transaction, the next ACCESS
\* EXCLUSIVE statement raises neither wide-lock-window nor
\* statement-after-access-exclusive
C27_NoDetectorFiresAfterRollback ==
  [][firstAccessExclusiveAfterRollback
       => /\ "wide-lock-window" \notin walk'.emitted
          /\ "statement-after-access-exclusive" \notin walk'.emitted]_vars

\* the part that holds: the lock map is restored, so wide-lock-window is not
\* raised for that statement
C27_NoWideLockWindowAfterRollback ==
  [][firstAccessExclusiveAfterRollback
       => "wide-lock-window" \notin walk'.emitted]_vars


-----------------------------------------------------------------------------
(* SpecPlugins: plugins are loaded from their paths and run on a statement *)

MaxPluginPaths == 2

\* String.prototype.startsWith('plugin:') on the rule IDs the model uses
startsWithPlugin(ruleId) ==
  CASE ruleId \in {"plugin:p1", "plugin:p2"} -> TRUE
    [] OTHER -> FALSE

PluginRule(ruleId, onAlter, resultId) ==
  [ruleId |-> ruleId, onAlter |-> onAlter, resultId |-> resultId]

PluginPolicy(ruleId, onFile, resultId) ==
  [ruleId |-> ruleId, onFile |-> onFile, resultId |-> resultId]

\* the plugin modules on disk: each declares one rule and at most one policy;
\* a check returns results under the declared ID, under the ID of the other
\* plugin or under the ID of a built-in rule
PluginModules ==
  {[name |-> "m", rules |-> <<PluginRule(ruleId, onAlter, resultId)>>, policies |-> policies] :
     ruleId \in {"plugin:p1", "plugin:p2", "add-column-not-null-no-default"},
     onAlter \in {"returns", "throws"},
     resultId \in {"plugin:p1", "plugin:p2", "add-column-not-null-no-default"},
     policies \in {<<>>, <<PluginPolicy("plugin:p1", "returns", "missing-lock-timeout")>>,
                   <<PluginPolicy("plugin:p2", "returns", "plugin:p2")>>}}

PluginsThrew == [rules |-> <<>>, policies |-> <<>>, threw |-> TRUE]

\* plugins.ts lines 36-81: the modules are read in order; a rule or policy whose
\* ID lacks the prefix or was seen before makes the load throw
RECURSIVE loadPlugins(_, _, _, _)
loadPlugins(modules, rules, policies, seenIds) ==
  IF modules = <<>> THEN [rules |-> rules, policies |-> policies, threw |-> FALSE]
  ELSE LET plugin == Head(modules)
           rule == plugin.rules[1]
           seenRules == seenIds \cup {rule.ruleId}
       IN IF ~startsWithPlugin(rule.ruleId) \/ rule.ruleId \in seenIds
          THEN PluginsThrew
          ELSE IF plugin.policies = <<>>
          THEN loadPlugins(Tail(modules), Append(rules, rule), policies, seenRules)
          ELSE LET policy == plugin.policies[1]
               IN IF ~startsWithPlugin(policy.ruleId) \/ policy.ruleId \in seenRules
                  THEN PluginsThrew
                  ELSE loadPlugins(Tail(modules), Append(rules, rule),
                                   Append(policies, policy),
                                   seenRules \cup {policy.ruleId})

pluginsStart == [pc |-> "plugins"]

\* analyzer.ts line 96: the plugins named by the configuration are loaded
LoadPlugins ==
  /\ calc.pc = "plugins"
  /\ \E modules \in SeqsUpTo(PluginModules, MaxPluginPaths) :
       LET loaded == loadPlugins(modules, <<>>, <<>>, {})
       IN calc' = [pc |-> IF loaded.threw THEN "threw" ELSE "loaded",
                   plugins |-> [rules |-> loaded.rules, policies |-> loaded.policies],
                   checks |-> {}, policyViolations |-> {}]
  /\ UNCHANGED <<tx, op, snapHist, walk, ref, an, batch, cli>>

\* analyzer.ts lines 157-180: the plugin rules run on a statement and the plugin
\* policies on the file, and what they return joins the results
RunPlugins ==
  /\ calc.pc = "loaded"
  /\ \E stmt \in {AddColumnStmt("t1"), CreateStmt("T1")} :
       calc' = [calc EXCEPT !.pc = "ran",
                            !.checks = runPluginRules(calc.plugins.rules, stmt, 1),
                            !.policyViolations =
                              runPluginPolicies(calc.plugins.policies, 1)]
  /\ UNCHANGED <<tx, op, snapHist, walk, ref, an, batch, cli>>

InitPlugins ==
  /\ tx = createTransactionState
  /\ op = NoOp
  /\ snapHist = <<>>
  /\ walk = walkIdle
  /\ ref = refIdle
  /\ an = anIdle
  /\ batch = batchIdle
  /\ cli = cliIdle
  /\ calc = pluginsStart

NextPlugins == LoadPlugins \/ RunPlugins

SpecPlugins == InitPlugins /\ [][NextPlugins]_vars

\* C28: every finding and every policy violation that a plugin contributes to
\* the results carries a rule ID that begins with plugin:
C28_PluginResultsAreNamespaced ==
  calc.pc = "ran"
    => /\ \A check \in calc.checks : startsWithPlugin(check.ruleId)
       /\ \A violation \in calc.policyViolations : startsWithPlugin(violation.ruleId)

\* the part that holds: the IDs the loaded rules and policies declare begin with
\* plugin: and no two of them are equal
C28_DeclaredIdsAreNamespaced ==
  calc.pc \in {"loaded", "ran"}
    => LET declared == calc.plugins.rules \o calc.plugins.policies IN
       /\ \A j \in 1..Len(declared) : startsWithPlugin(declared[j].ruleId)
       /\ \A j, k \in 1..Len(declared) : j # k => declared[j].ruleId # declared[k].ruleId


-----------------------------------------------------------------------------
(* SpecCoverage: the coverage summary of the JSON and the CLI reporter *)

MaxReportFiles == 2

StatementCounts == {0, 1, 2, 200}
WarningCounts == {0, 1, 2}

\* an AnalysisResult, reduced to the fields the coverage summary reads
AnalysisResult(statementCount, extractionWarnings) ==
  [statementCount |-> statementCount, extractionWarnings |-> extractionWarnings]

\* results.reduce((sum, r) => sum + f(r), 0)
RECURSIVE sumStatements(_)
sumStatements(results) ==
  IF results = <<>> THEN 0
  ELSE Head(results).statementCount + sumStatements(Tail(results))

RECURSIVE sumWarnings(_)
sumWarnings(results) ==
  IF results = <<>> THEN 0
  ELSE Head(results).extractionWarnings + sumWarnings(Tail(results))

\* Math.round(num / den * 100) for den > 0: the nearest integer, a half rounded
\* up, which is the floor of num / den * 100 + 1/2
roundPercent(num, den) == (200 * num + den) \div (2 * den)

coveragePct(totalStatements, dynamicWarnings) ==
  IF totalStatements > 0
  THEN roundPercent(totalStatements - dynamicWarnings, totalStatements)
  ELSE 100

\* the coverage object of the report
coverageOf(results) ==
  [totalStatements |-> sumStatements(results),
   dynamicStatements |-> sumWarnings(results),
   coveragePercent |-> coveragePct(sumStatements(results), sumWarnings(results))]

reportStart == [pc |-> "results", results |-> <<>>]

\* analyze() has pushed the result of one more file
PushAnalysisResult ==
  /\ calc.pc = "results"
  /\ Len(calc.results) < MaxReportFiles
  /\ \E statementCount \in StatementCounts, extractionWarnings \in WarningCounts :
       calc' = [calc EXCEPT
                  !.results = Append(@, AnalysisResult(statementCount, extractionWarnings))]
  /\ UNCHANGED <<tx, op, snapHist, walk, ref, an, batch, cli>>

reportJSON ==
  /\ calc.pc = "results"
  /\ calc' = [pc |-> "reported", results |-> calc.results, format |-> "json",
              coverage |-> coverageOf(calc.results)]
  /\ UNCHANGED <<tx, op, snapHist, walk, ref, an, batch, cli>>

reportCLI ==
  /\ calc.pc = "results"
  /\ calc' = [pc |-> "reported", results |-> calc.results, format |-> "cli",
              coverage |-> coverageOf(calc.results)]
  /\ UNCHANGED <<tx, op, snapHist, walk, ref, an, batch, cli>>

InitCoverage ==
  /\ tx = createTransactionState
  /\ op = NoOp
  /\ snapHist = <<>>
  /\ walk = walkIdle
  /\ ref = refIdle
  /\ an = anIdle
  /\ batch = batchIdle
  /\ cli = cliIdle
  /\ calc = reportStart

NextCoverage == PushAnalysisResult \/ reportJSON \/ reportCLI

SpecCoverage == InitCoverage /\ [][NextCoverage]_vars

\* C29: whenever the batch holds at least one extraction warning, the reported
\* coverage percent is strictly less than 100, also when the batch holds no
\* statement and after rounding
C29_WarningsLowerCoverage ==
  (calc.pc = "reported" /\ calc.coverage.dynamicStatements >= 1)
    => calc.coverage.coveragePercent < 100

\* the part that holds: with at least one statement and more than one warning
\* per 200 statements the reported percent is below 100
C29_WarningsLowerCoverageAboveHalfPercent ==
  (/\ calc.pc = "reported"
   /\ calc.coverage.totalStatements > 0
   /\ 200 * calc.coverage.dynamicStatements > calc.coverage.totalStatements)
    => calc.coverage.coveragePercent < 100


====
